---- MODULE Spec2Model ----
(***************************************************************************)
(* Connection executor of BeakDash (server/routes): the HTTP routes that   *)
(* fetch rows through a stored connection (csv / rest / sql), with the     *)
(* ephemeral pg pool each SQL request creates and closes.                  *)
(*                                                                         *)
(* One request = one run of an async route handler.  A handler step runs   *)
(* from one awaited external call (storage lookup, pool.query, pool.end,   *)
(* fetch, response.json) to the next; the outcome of each awaited call is  *)
(* chosen by the environment (resolve or reject).  The dynamic             *)
(* `await import(...)` of pg / data-adapters is taken to resolve.          *)
(***************************************************************************)
EXTENDS Integers, Sequences, FiniteSets, TLC

(* ----------------------------- bounds ---------------------------------- *)
\* Number of request slots.  Slot 1 draws its route and inputs from the full
\* input sets; the further slots are concurrent traffic against the stored
\* SQL connection 1 (dataset 1), so that requests overlap in every phase.
MaxReqs == 2

\* WebSocket clients known to the server, and calls of generateAIResponse.
MaxClients == 2
MaxCalls == 1

\* Concurrent POST /api/spaces requests, and consecutive migration runs.
MaxPosts == 2
MaxRuns == 2

Reqs == 1..MaxReqs

(* --------------------------- JS values --------------------------------- *)
\* Loosely typed JS values: config bags are Record<string, any>.
Undef == [t |-> "undefined"]
Null == [t |-> "null"]
Str(s) == [t |-> "string", v |-> s]
Obj(o) == [t |-> "object", v |-> o]

\* JS truthiness, as used by `if (x)`, `!x`, `a || b`.
Truthy(x) ==
  CASE x.t = "undefined" -> FALSE
    [] x.t = "null" -> FALSE
    [] x.t = "string" -> x.v # ""
    [] x.t = "number" -> x.v # 0
    [] OTHER -> TRUE

\* a || b
OrElse(a, b) == IF Truthy(a) THEN a ELSE b

\* { ...h, [k]: v }  (spreading undefined gives {})
Spread(h, k, v) ==
  LET base == IF h.t = "object" THEN h.v ELSE <<>>
      keys == (IF h.t = "object" THEN DOMAIN h.v ELSE {}) \cup {k}
  IN Obj([x \in keys |-> IF x = k THEN v ELSE base[x]])

(* ----------------------------- base64 ---------------------------------- *)
\* Buffer.from(s).toString('base64') on a sequence of bytes.
B64Alphabet ==
  <<"A","B","C","D","E","F","G","H","I","J","K","L","M","N","O","P",
    "Q","R","S","T","U","V","W","X","Y","Z","a","b","c","d","e","f",
    "g","h","i","j","k","l","m","n","o","p","q","r","s","t","u","v",
    "w","x","y","z","0","1","2","3","4","5","6","7","8","9","+","/">>

B64Char(n) == B64Alphabet[n + 1]

RECURSIVE Base64(_)
Base64(bytes) ==
  IF Len(bytes) = 0 THEN ""
  ELSE IF Len(bytes) = 1 THEN
    B64Char(bytes[1] \div 4) \o B64Char((bytes[1] % 4) * 16) \o "=="
  ELSE IF Len(bytes) = 2 THEN
    B64Char(bytes[1] \div 4)
      \o B64Char((bytes[1] % 4) * 16 + bytes[2] \div 16)
      \o B64Char((bytes[2] % 16) * 4) \o "="
  ELSE
    B64Char(bytes[1] \div 4)
      \o B64Char((bytes[1] % 4) * 16 + bytes[2] \div 16)
      \o B64Char((bytes[2] % 16) * 4 + bytes[3] \div 64)
      \o B64Char(bytes[3] % 64)
      \o Base64(SubSeq(bytes, 4, Len(bytes)))

\* `${username}:${password}` as bytes (58 is ':').
BasicCredentials(auth) == auth.username \o <<58>> \o auth.password

(* --------------------------- registries -------------------------------- *)
\* Connection records {id, type, config} as the connection registry stores
\* them: one stored connection per shape of config the routes distinguish.
SqlConfig(cs, host, port, database, user, password) ==
  Obj([connectionString |-> cs, host |-> host, port |-> port,
       database |-> database, user |-> user, password |-> password])

RestConfig(url, headers, auth, method, body) ==
  Obj([url |-> url, headers |-> headers, auth |-> auth, method |-> method,
       body |-> body, resultPath |-> Undef])

CsvConfig(csvData, fileContent) ==
  Obj([csvData |-> csvData, fileContent |-> fileContent, delimiter |-> Undef,
       hasHeaders |-> Undef, quoteChar |-> Undef, trimFields |-> Undef])

BasicAuth == Obj([type |-> "basic", username |-> <<117>>, password |-> <<112>>,
                  token |-> Undef])
BearerAuth == Obj([type |-> "bearer", username |-> <<>>, password |-> <<>>,
                   token |-> Str("tok")])
BearerNoToken == Obj([type |-> "bearer", username |-> <<>>, password |-> <<>>,
                      token |-> Undef])

OldHeaders == Obj([x \in {"Authorization", "Accept"} |->
                    IF x = "Authorization" THEN "Token old" ELSE "text/plain"])
PlainHeaders == Obj([x \in {"Accept", "Content-Type"} |-> "text/plain"])

Url == Str("https://api.example/rows")
JsonBody == Obj([filter |-> "all"])

StoredConnections ==
  [i \in 1..16 |->
    [t |-> "object", id |-> i,
     type |-> IF i <= 4 THEN "sql" ELSE IF i <= 10 THEN "rest"
              ELSE IF i <= 13 THEN "csv" ELSE IF i = 14 THEN "mongo"
              ELSE IF i = 15 THEN "csv" ELSE "rest",
     config |->
       CASE i = 1 -> SqlConfig(Str("postgres://app@db/main"), Str("h"), Str("5432"),
                               Str("other"), Str("u"), Str("pw"))
         [] i = 2 -> SqlConfig(Str(""), Str("h"), Str("5432"), Str("shop"),
                               Str("u"), Str("pw"))
         [] i = 3 -> SqlConfig(Undef, Str("h"), Str("5432"), Undef, Str("u"), Undef)
         [] i = 4 -> Null
         [] i = 5 -> RestConfig(Url, OldHeaders, BasicAuth, Str("POST"), JsonBody)
         [] i = 6 -> RestConfig(Url, Undef, BearerAuth, Undef, Undef)
         [] i = 7 -> RestConfig(Url, OldHeaders, BearerNoToken, Str("GET"), JsonBody)
         [] i = 8 -> RestConfig(Url, PlainHeaders, Undef, Str("PUT"), JsonBody)
         [] i = 9 -> RestConfig(Url, PlainHeaders, Undef, Undef, Undef)
         [] i = 10 -> RestConfig(Undef, Undef, Undef, Undef, Undef)
         [] i = 11 -> CsvConfig(Str("a,b|1,2"), Str("c|3"))
         [] i = 12 -> CsvConfig(Undef, Str("c|3"))
         [] i = 13 -> CsvConfig(Str(""), Undef)
         [] i = 14 -> Obj([uri |-> "mongodb://x"])
         [] i = 15 -> Null
         [] OTHER -> RestConfig(Url, PlainHeaders, Undef, Str("DELETE"), JsonBody)]]

\* Dataset records {id, connectionId, query, config}.  Dataset 18 has a null
\* connectionId; dataset 19 refers to connection 99, which is not stored;
\* datasets 20 and 21 refer to connections 15 and 16.
Num(n) == [t |-> "number", v |-> n]

TableConfig == Obj([table |-> Str("orders")])

StoredDatasets ==
  [i \in 1..21 |->
    [t |-> "object", id |-> i,
     connectionId |->
       CASE i \in {1, 2, 3, 5} -> Num(1)
         [] i = 4 -> Num(2)
         [] i \in 6..17 -> Num(i - 3)
         [] i = 18 -> Null
         [] i = 19 -> Num(99)
         [] OTHER -> Num(i - 5),
     query |->
       CASE i = 5 -> Str("SELECT a FROM t")
         [] i = 4 -> Str("SELECT b FROM s")
         [] i = 3 -> Str("")
         [] OTHER -> Null,
     config |->
       CASE i \in {1, 5} -> TableConfig
         [] i = 3 -> Obj([table |-> Undef])
         [] OTHER -> Null]]

(* ------------------------------ state ---------------------------------- *)
VARIABLES
  connections,  \* connection registry (storage): id -> record
  datasets,     \* dataset registry (storage): id -> record
  req,          \* req[r]: the handler run of request r (locals, res, position)
  pools         \* pools[r]: the pg Pool object request r constructed

\* The WebSocket registry and the AI copilot of the same module.
VARIABLES
  activeClients,  \* const activeClients: Set<ExtendedWebSocket>
  sockets,        \* sockets[c]: the WebSocket object c
  lastBroadcast,  \* what the broadcast that has just returned did
  live,           \* live[c]: c was registered while not CLOSED and has since
                  \* neither fired 'close' nor been unregistered (history)
  openai,         \* let openai: OpenAI | null, after module initialisation
  calls           \* calls[k]: the run of generateAIResponse call k

\* The spaces API route (POST /api/spaces) and its tables.
VARIABLES
  spaces,      \* the spaces table: a sequence of rows, id = position
  userSpaces,  \* the userSpaces table: a set of membership rows
  posts        \* posts[p]: the run of POST request p

\* The alerts migration and the database schema it works on.
VARIABLES
  schema,     \* columns of db_qa_alerts, the two tables, their columns
  migration   \* the runs of migrateAlertsTables so far and the current one

routeVars == <<connections, datasets, req, pools>>
spaceVars == <<spaces, userSpaces, posts>>
migrationVars == <<schema, migration>>
wsVars == <<activeClients, sockets, lastBroadcast, live, openai, calls>>

vars == <<routeVars, wsVars, spaceVars, migrationVars>>

\* What the executor routes, the WebSocket and copilot functions, the spaces
\* route and the migration each have no access to.
nonRouteVars == <<wsVars, spaceVars, migrationVars>>
nonWsVars == <<routeVars, spaceVars, migrationVars>>
nonSpaceVars == <<routeVars, wsVars, migrationVars>>
nonMigrationVars == <<routeVars, wsVars, spaceVars>>

\* storage.getDataset(id) / storage.getConnection(id): the record or undefined.
getDataset(id) ==
  IF id.t = "number" /\ id.v \in DOMAIN datasets THEN datasets[id.v] ELSE Undef

getConnection(id) ==
  IF id.t = "number" /\ id.v \in DOMAIN connections THEN connections[id.v] ELSE Undef

\* A handler that has not been invoked.  res is the Express response: the
\* sequence of responses written (at most one can be); lateSends counts the
\* res.json calls made after one was written (each throws
\* ERR_HTTP_HEADERS_SENT).  thrown is the exception in flight or caught;
\* upstreamError is the error the upstream call (pool.query, fetch) failed
\* with.  builderCalls / parseCalls / fetchCalls record the calls of
\* buildPgConnectionString, parseCSV and fetch.
IdleReq ==
  [pc |-> "idle", route |-> "none", id |-> Undef, query |-> Undef,
   table |-> Undef, dataset |-> Undef, connection |-> Undef,
   connectionString |-> "", tempPool |-> Undef, sqlQuery |-> "",
   fetchOptions |-> Undef,
   thrown |-> Undef, upstreamError |-> Undef, data |-> <<>>, res |-> <<>>,
   lateSends |-> 0,
   builderCalls |-> 0, parseCalls |-> 0, fetchCalls |-> <<>>]

\* A pg Pool object that has not been constructed.
NoPool ==
  [created |-> FALSE, connectionString |-> "", queries |-> <<>>,
   endCalls |-> 0, ended |-> FALSE, queriesAfterEnd |-> 0]

\* No request has been received by the executor routes.
RoutesQuiet ==
  /\ connections = StoredConnections
  /\ datasets = StoredDatasets
  /\ req = [r \in Reqs |-> IdleReq]
  /\ pools = [r \in Reqs |-> NoPool]

(* --------------------- WebSocket registry state ------------------------ *)
Clients == 1..MaxClients
Calls == 1..MaxCalls

\* A WebSocket as the registry sees it: readyState, the isAlive flag, whether
\* the registry's 'close' listener is attached, and the close() calls made.
NewSocket(readyState) ==
  [readyState |-> readyState, isAlive |-> FALSE, closeListener |-> FALSE,
   closeCalls |-> 0]

\* before: the registry when the broadcast began; observed: the clients
\* whose readyState the loop read; sendCalls: the clients send() was called
\* on; threw: those whose send() threw.
NoBroadcast ==
  [returned |-> FALSE, threwToCaller |-> FALSE, message |-> Undef,
   before |-> {}, observed |-> {}, sendCalls |-> {}, threw |-> {}]

IdleCall == [pc |-> "idle", log |-> <<>>, result |-> Undef, rejected |-> FALSE]

\* No socket has been registered and generateAIResponse has not been called.
WsQuiet ==
  /\ activeClients = {}
  /\ sockets = [c \in Clients |-> NewSocket("OPEN")]
  /\ lastBroadcast = NoBroadcast
  /\ live = [c \in Clients |-> FALSE]
  /\ openai = TRUE
  /\ calls = [k \in Calls |-> IdleCall]

(* ------------------------ spaces route state -------------------------- *)
Posts == 1..MaxPosts

\* The users table: one user.  A session can also belong to an account whose
\* row is gone.
StoredUsers == {[id |-> 1, email |-> "ann@example.org"]}

SpaceRow(id, slug, isDefault) ==
  [id |-> id, slug |-> slug, isDefault |-> isDefault]
OwnerRow(userId, spaceId) ==
  [userId |-> userId, spaceId |-> spaceId, role |-> "owner"]

\* The tables before the requests: one default space owned by the user.
StoredSpaces == <<SpaceRow(1, "general", TRUE)>>
StoredUserSpaces == {OwnerRow(1, 1)}

\* cleared: ids of the spaces whose isDefault this request set to false.
IdlePost ==
  [pc |-> "idle", session |-> Undef, name |-> Undef, isDefault |-> FALSE,
   user |-> Undef, newSpace |-> Undef, cleared |-> {}, status |-> 0]

SpacesQuiet ==
  /\ spaces = StoredSpaces
  /\ userSpaces = StoredUserSpaces
  /\ posts = [p \in Posts |-> IdlePost]

(* -------------------------- migration state ---------------------------- *)
\* Columns the migration adds to db_qa_alerts, in the order it checks them.
AlertColumns ==
  <<"description", "severity", "space_id", "enabled", "email_recipients",
    "slack_webhook", "custom_webhook", "throttle_minutes", "last_triggered_at">>

\* Columns it adds to db_qa_alert_notifications, in the order it checks them.
NotificationColumns ==
  <<"attempts", "alert_history_id", "retry_scheduled_for", "recipient">>

Range(seq) == {seq[i] : i \in DOMAIN seq}

FullSchema ==
  [alerts |-> Range(AlertColumns), history |-> TRUE, notifications |-> TRUE,
   notificationColumns |-> Range(NotificationColumns)]

\* run: the number of the current or last run; i: the column being checked;
\* ddl: the ALTER TABLE and CREATE statements the current run has executed;
\* prevOk: the run before this one returned true.
NoMigration == [pc |-> "idle", i |-> 1, run |-> 0, ddl |-> 0, prevOk |-> FALSE]

MigrationQuiet ==
  /\ schema = FullSchema
  /\ migration = NoMigration

Init ==
  /\ RoutesQuiet
  /\ WsQuiet
  /\ SpacesQuiet
  /\ MigrationQuiet

(* ----------------------------- inputs ---------------------------------- *)
Override == "SELECT * FROM dataset_5"

DatasetIdInputs == {Num(i) : i \in DOMAIN StoredDatasets} \cup {Num(99)}
ConnectionIdInputs == {Num(i) : i \in DOMAIN StoredConnections} \cup {Num(99)}
\* req.query.customQuery: absent, empty, a string, or an array (repeated key).
CustomQueryInputs == {Undef, Str(""), Str(Override), Obj(<<Override, Override>>)}
\* req.body.query
BodyQueryInputs == {Undef, Str(Override), Obj(<<Override>>)}
\* req.body.table
TableInputs == {Undef, Str("orders")}

\* Outcomes of an awaited external call.
Outcomes == {"ok", "throw"}
StorageError == "storage unavailable"
ParseError == "Invalid CSV"
QueryError == "relation does not exist"
EndError == "pool end failed"
FetchError == "fetch failed"
JsonError == "Unexpected token < in JSON"
DbRows == <<[table_name |-> "orders"], [table_name |-> "users"]>>

(* ------------------------- response helpers ---------------------------- *)
Response(status, message, error, rows) ==
  [status |-> status, message |-> message, error |-> error, rows |-> rows]

\* return res.status(s).json(...) where nothing has been written yet.
Reply(q, status, message, error, rows) ==
  [q EXCEPT !.res = <<Response(status, message, error, rows)>>, !.pc = "done"]

\* catch (error) at the route boundary: res.status(500).json(...).
InternalError(q, error) ==
  Reply([q EXCEPT !.thrown = Str(error)], 500, "Internal server error", Undef, <<>>)

(* ----------------------- connection string ----------------------------- *)
\* buildPgConnectionString(config): a connection string synthesized from the
\* discrete fields, or null when database or user is missing.
buildPgConnectionString(config) ==
  LET c == config.v
  IN IF ~Truthy(c.database) \/ ~Truthy(c.user) THEN Null
     ELSE Str("postgresql://" \o c.user.v
              \o (IF Truthy(c.password) THEN ":" \o c.password.v ELSE "")
              \o "@" \o OrElse(c.host, Str("localhost")).v
              \o ":" \o OrElse(c.port, Str("5432")).v
              \o "/" \o c.database.v)

\* Mutant: the `if (!connStr) return 400` check is missing, and the pool is
\* opened with whatever the builder returned.
ResolveWithoutNullCheck(config) ==
  IF Truthy(config.v.connectionString)
  THEN [ok |-> TRUE, connectionString |-> config.v.connectionString.v,
        builderCalls |-> 0]
  ELSE LET connStr == buildPgConnectionString(config)
       IN [ok |-> TRUE,
           connectionString |-> IF Truthy(connStr) THEN connStr.v ELSE "null",
           builderCalls |-> 1]

\* Mutant: the discrete fields are preferred, config.connectionString is only
\* the fallback.
ResolveBuildFirst(config) ==
  LET connStr == buildPgConnectionString(config)
  IN IF Truthy(connStr)
     THEN [ok |-> TRUE, connectionString |-> connStr.v, builderCalls |-> 1]
     ELSE IF Truthy(config.v.connectionString)
     THEN [ok |-> TRUE, connectionString |-> config.v.connectionString.v,
           builderCalls |-> 1]
     ELSE [ok |-> FALSE, connectionString |-> "", builderCalls |-> 1]

\* "Build connection string from config": config.connectionString verbatim
\* when truthy, else the synthesized one; ok is FALSE on the 400 return.
ResolveConnectionString(config) ==
  IF Truthy(config.v.connectionString)
  THEN [ok |-> TRUE, connectionString |-> config.v.connectionString.v,
        builderCalls |-> 0]
  ELSE LET connStr == buildPgConnectionString(config)
       IN IF ~Truthy(connStr)
          THEN [ok |-> FALSE, connectionString |-> "", builderCalls |-> 1]
          ELSE [ok |-> TRUE, connectionString |-> connStr.v, builderCalls |-> 1]

IncompleteMessage ==
  "Connection configuration is incomplete. Database and user/username are required."

\* Every request is handed the one pool of the first slot, as a pool shared
\* at module level would be, instead of a pool of its own.
OpenSharedPool(q, r) ==
  LET config == q.connection.config
  IN IF ~Truthy(config)
     THEN Reply(q, 400, "Connection configuration is missing", Undef, <<>>)
     ELSE LET cs == ResolveConnectionString(config)
          IN IF ~cs.ok
             THEN Reply([q EXCEPT !.builderCalls = @ + cs.builderCalls],
                        400, IncompleteMessage, Undef, <<>>)
             ELSE [q EXCEPT !.builderCalls = @ + cs.builderCalls,
                            !.connectionString = cs.connectionString,
                            !.tempPool = [t |-> "pool", id |-> 1]]

\* From `const config = connection.config` to `new Pool({ connectionString })`:
\* the request after the 400 returns, or holding its new pool.
OpenTempPool(q, r) ==
  LET config == q.connection.config
  IN IF ~Truthy(config)
     THEN Reply(q, 400, "Connection configuration is missing", Undef, <<>>)
     ELSE LET cs == ResolveConnectionString(config)
          IN IF ~cs.ok
             THEN Reply([q EXCEPT !.builderCalls = @ + cs.builderCalls],
                        400, IncompleteMessage, Undef, <<>>)
             ELSE [q EXCEPT !.builderCalls = @ + cs.builderCalls,
                            !.connectionString = cs.connectionString,
                            !.tempPool = [t |-> "pool", id |-> r]]

\* new Pool({ connectionString })
NewPool(connectionString) ==
  [NoPool EXCEPT !.created = TRUE, !.connectionString = connectionString]

\* The pool table ps after request r ran OpenTempPool and became q.
OpenPool(ps, q, r) ==
  IF q.tempPool # Undef THEN [ps EXCEPT ![r] = NewPool(q.connectionString)]
  ELSE ps

\* The statement is issued and, as a retry, issued a second time.
QueryPoolRetry(ps, q, statement) ==
  [ps EXCEPT ![q.tempPool.id] =
     [@ EXCEPT !.queries = @ \o <<statement, statement>>]]

\* tempPool.query(statement) is called on the pool the handler holds.
QueryPool(ps, q, statement) ==
  [ps EXCEPT ![q.tempPool.id] =
     [@ EXCEPT !.queries = Append(@, statement),
               !.queriesAfterEnd = IF ps[q.tempPool.id].endCalls > 0
                                   THEN @ + 1 ELSE @]]

\* finally { await tempPool.end() }: end() is called when the finally block
\* is entered (EndCalled) and settles, resolved or rejected, later (EndSettled).
\* Mutant: the finally block is missing, end() is never called.
EndNotCalled(ps, q) == ps

EndCalled(ps, q) ==
  [ps EXCEPT ![q.tempPool.id] = [@ EXCEPT !.endCalls = @ + 1]]

EndSettled(ps, q) ==
  [ps EXCEPT ![q.tempPool.id] = [@ EXCEPT !.ended = TRUE]]

(* ------------------- GET /datasets/:id/data ---------------------------- *)
\* Mutant: the stored query is checked last and overrides the customQuery.
DataSqlQueryStoredWins(dataset, customQuery) ==
  LET fallback == "SELECT * FROM users LIMIT 100"
      requested ==
        IF Truthy(customQuery) /\ customQuery.t = "string" THEN customQuery.v
        ELSE IF Truthy(dataset.config) /\ dataset.config.t = "object"
        THEN IF Truthy(dataset.config.v.table)
             THEN "SELECT * FROM " \o dataset.config.v.table.v \o " LIMIT 100"
             ELSE fallback
        ELSE fallback
  IN IF Truthy(dataset.query) THEN dataset.query.v ELSE requested

\* The statement selection with no default: sqlQuery starts out empty.
DataSqlQueryNoFallback(dataset, customQuery) ==
  LET fallback == ""
      stored ==
        IF Truthy(dataset.query) THEN dataset.query.v
        ELSE IF Truthy(dataset.config) /\ dataset.config.t = "object"
        THEN IF Truthy(dataset.config.v.table)
             THEN "SELECT * FROM " \o dataset.config.v.table.v \o " LIMIT 100"
             ELSE fallback
        ELSE fallback
  IN IF Truthy(customQuery) /\ customQuery.t = "string" THEN customQuery.v
     ELSE stored

\* "Determine which query to execute".
DataSqlQuery(dataset, customQuery) ==
  LET fallback == "SELECT * FROM users LIMIT 100"
      stored ==
        IF Truthy(dataset.query) THEN dataset.query.v
        ELSE IF Truthy(dataset.config) /\ dataset.config.t = "object"
        THEN IF Truthy(dataset.config.v.table)
             THEN "SELECT * FROM " \o dataset.config.v.table.v \o " LIMIT 100"
             ELSE fallback
        ELSE fallback
  IN IF Truthy(customQuery) /\ customQuery.t = "string" THEN customQuery.v
     ELSE stored

\* Mutant: the configured headers are spread last, so a configured
\* Authorization entry survives.
WithAuthHeadersLast(headers, auth) ==
  LET keep(h) == IF headers.t = "object" /\ "Authorization" \in DOMAIN headers.v
                 THEN headers ELSE h
  IN IF ~Truthy(auth) THEN headers
     ELSE IF auth.v.type = "basic"
     THEN keep(Spread(headers, "Authorization",
                      "Basic " \o Base64(BasicCredentials(auth.v))))
     ELSE IF auth.v.type = "bearer" /\ Truthy(auth.v.token)
     THEN keep(Spread(headers, "Authorization", "Bearer " \o auth.v.token.v))
     ELSE headers

\* Authorization header injected from config.auth into the fetch headers.
WithAuth(headers, auth) ==
  IF ~Truthy(auth) THEN headers
  ELSE IF auth.v.type = "basic"
  THEN Spread(headers, "Authorization",
              "Basic " \o Base64(BasicCredentials(auth.v)))
  ELSE IF auth.v.type = "bearer" /\ Truthy(auth.v.token)
  THEN Spread(headers, "Authorization", "Bearer " \o auth.v.token.v)
  ELSE headers

\* JSON.stringify(config.body): the serialized text of the object.
Stringify(body) == [t |-> "string", json |-> body.v]

\* The RequestInit with the body attached whenever one is configured,
\* whatever the method.
FetchOptionsBodyAlways(config) ==
  LET headers0 == IF Truthy(config.headers) THEN config.headers ELSE Undef
      headers1 == WithAuth(headers0, config.auth)
      method == OrElse(config.method, Str("GET")).v
      hasBody == Truthy(config.body)
  IN [method |-> method,
      headers |-> IF hasBody
                  THEN Spread(headers1, "Content-Type", "application/json")
                  ELSE headers1,
      body |-> IF hasBody THEN Stringify(config.body) ELSE Undef]

\* The RequestInit built from the rest connection's config.
FetchOptions(config) ==
  LET headers0 == IF Truthy(config.headers) THEN config.headers ELSE Undef
      headers1 == WithAuth(headers0, config.auth)
      method == OrElse(config.method, Str("GET")).v
      hasBody == method \in {"POST", "PUT", "PATCH"} /\ Truthy(config.body)
  IN [method |-> method,
      headers |-> IF hasBody
                  THEN Spread(headers1, "Content-Type", "application/json")
                  ELSE headers1,
      body |-> IF hasBody THEN Stringify(config.body) ELSE Undef]

\* csv branch reading `config?.fileContent || config?.csvData`.
DataCsvFileFirst(q, out) ==
  LET config == q.connection.config
      csvContent == IF Truthy(config)
                    THEN OrElse(config.v.fileContent, config.v.csvData)
                    ELSE Undef
  IN IF ~Truthy(config) \/ ~Truthy(csvContent)
     THEN Reply(q, 400, "No CSV data found in connection", Undef, <<>>)
     ELSE IF out = "throw"
     THEN InternalError([q EXCEPT !.parseCalls = @ + 1], ParseError)
     ELSE Reply([q EXCEPT !.parseCalls = @ + 1], 200, "", Undef,
                <<[parsed |-> csvContent.v]>>)

\* csv branch; out is whether parseCSV returns or throws.
DataCsv(q, out) ==
  LET config == q.connection.config
      csvContent == IF Truthy(config)
                    THEN OrElse(config.v.csvData, config.v.fileContent)
                    ELSE Undef
  IN IF ~Truthy(config) \/ ~Truthy(csvContent)
     THEN Reply(q, 400, "No CSV data found in connection", Undef, <<>>)
     ELSE IF out = "throw"
     THEN InternalError([q EXCEPT !.parseCalls = @ + 1], ParseError)
     ELSE Reply([q EXCEPT !.parseCalls = @ + 1], 200, "", Undef,
                <<[parsed |-> csvContent.v]>>)

\* rest branch up to the call of fetch(config.url, fetchOptions).
DataRest(q) ==
  LET config == q.connection.config
  IN IF ~Truthy(config) THEN
       Reply(q, 400, "REST connection URL is missing", Undef, <<>>)
     ELSE IF ~Truthy(config.v.url) THEN
       Reply(q, 400, "REST connection URL is missing", Undef, <<>>)
     ELSE LET fetchOptions == FetchOptions(config.v)
          IN [q EXCEPT !.fetchOptions = Obj(fetchOptions),
                       !.fetchCalls = Append(@, [url |-> config.v.url.v,
                                                 options |-> fetchOptions]),
                       !.pc = "fetch"]

\* sql branch up to the call of tempPool.query(sqlQuery).
DataSql(q, r) ==
  LET q1 == OpenTempPool(q, r)
  IN IF q1.tempPool = Undef THEN q1
     ELSE [q1 EXCEPT !.sqlQuery = DataSqlQuery(q.dataset, q.query),
                     !.pc = "query"]

\* The handler is invoked: it calls storage.getDataset(id).
DatasetData_Start(r) ==
  /\ req[r].pc = "idle"
  /\ \E id \in (IF r = 1 THEN DatasetIdInputs ELSE {Num(5)}),
        customQuery \in (IF r = 1 THEN CustomQueryInputs ELSE {Undef}) :
       req' = [req EXCEPT ![r] = [@ EXCEPT !.route = "data", !.id = id,
                                           !.query = customQuery,
                                           !.pc = "getDataset"]]
  /\ UNCHANGED <<connections, datasets, pools, nonRouteVars>>

\* storage.getDataset settles, and the handler stores the request's
\* customQuery as the dataset's query.
DatasetData_GetDatasetSavesQuery(r) ==
  /\ req[r].pc = "getDataset" /\ req[r].route = "data"
  /\ \E out \in Outcomes :
       LET q == req[r]
           dataset == getDataset(q.id)
       IN /\ req' = [req EXCEPT ![r] =
               IF out = "throw" THEN InternalError(q, StorageError)
               ELSE IF ~Truthy(dataset)
               THEN Reply(q, 404, "Dataset not found", Undef, <<>>)
               ELSE IF dataset.connectionId = Null
               THEN Reply(q, 400, "Dataset has no associated connection", Undef, <<>>)
               ELSE [q EXCEPT !.dataset = dataset, !.pc = "getConnection"]]
          /\ datasets' =
               IF out = "ok" /\ Truthy(dataset) /\ Truthy(q.query)
               THEN [datasets EXCEPT ![dataset.id].query = q.query]
               ELSE datasets
  /\ UNCHANGED <<connections, pools, nonRouteVars>>

\* storage.getDataset settles.
DatasetData_GetDataset(r) ==
  /\ req[r].pc = "getDataset" /\ req[r].route = "data"
  /\ \E out \in Outcomes :
       LET q == req[r]
           dataset == getDataset(q.id)
       IN req' = [req EXCEPT ![r] =
            IF out = "throw" THEN InternalError(q, StorageError)
            ELSE IF ~Truthy(dataset)
            THEN Reply(q, 404, "Dataset not found", Undef, <<>>)
            ELSE IF dataset.connectionId = Null
            THEN Reply(q, 400, "Dataset has no associated connection", Undef, <<>>)
            ELSE [q EXCEPT !.dataset = dataset, !.pc = "getConnection"]]
  /\ UNCHANGED <<connections, datasets, pools, nonRouteVars>>

\* Mutant: the `if (!connection) return 404` check is missing; reading
\* connection.type then throws and the boundary answers 500.
DataDispatchNo404(q, r, connection, out) ==
  LET q1 == [q EXCEPT !.connection = connection]
  IN IF ~Truthy(connection)
     THEN Reply(q, 500, "Internal server error", Undef, <<>>)
     ELSE IF connection.type = "csv" THEN DataCsv(q1, out)
     ELSE IF connection.type = "rest" THEN DataRest(q1)
     ELSE IF connection.type = "sql" THEN DataSql(q1, r)
     ELSE Reply(q1, 200, "", Undef, <<>>)

\* storage.getConnection settles; the handler dispatches on connection.type.
\* The dispatch with a final else that refuses a type it does not know.
DataDispatchUnsupported(q, r, connection, out) ==
  LET q1 == [q EXCEPT !.connection = connection]
  IN IF ~Truthy(connection)
     THEN Reply(q, 404, "Connection not found", Undef, <<>>)
     ELSE IF connection.type = "csv" THEN DataCsv(q1, out)
     ELSE IF connection.type = "rest" THEN DataRest(q1)
     ELSE IF connection.type = "sql" THEN DataSql(q1, r)
     ELSE Reply(q1, 400, "Unsupported connection type", Undef, <<>>)

DataDispatch(q, r, connection, out) ==
  LET q1 == [q EXCEPT !.connection = connection]
  IN IF ~Truthy(connection)
     THEN Reply(q, 404, "Connection not found", Undef, <<>>)
     ELSE IF connection.type = "csv" THEN DataCsv(q1, out)
     ELSE IF connection.type = "rest" THEN DataRest(q1)
     ELSE IF connection.type = "sql" THEN DataSql(q1, r)
     ELSE Reply(q1, 200, "", Undef, <<>>)

DatasetData_GetConnection(r) ==
  /\ req[r].pc = "getConnection" /\ req[r].route = "data"
  /\ \E out \in Outcomes, parse \in Outcomes :
       LET q == req[r]
           q2 == IF out = "throw" THEN InternalError(q, StorageError)
                 ELSE DataDispatch(q, r, getConnection(q.dataset.connectionId), parse)
       IN /\ req' = [req EXCEPT ![r] = q2]
          /\ pools' = IF q2.pc = "query"
                      THEN QueryPool(OpenPool(pools, q2, r), q2, q2.sqlQuery)
                      ELSE OpenPool(pools, q2, r)
  /\ UNCHANGED <<connections, datasets, nonRouteVars>>

\* tempPool.query settles: rows (data = result.rows) or a thrown error; the
\* finally block then calls tempPool.end().
\* Mutant: the rows are returned with res.json from inside the try block.
DataQueryRespondsInTry(q, out) ==
  IF out = "throw"
  THEN [q EXCEPT !.thrown = Str(QueryError), !.upstreamError = Str(QueryError),
                 !.pc = "end"]
  ELSE [q EXCEPT !.data = DbRows, !.pc = "end",
                 !.res = <<Response(200, "", Undef, DbRows)>>]

DataQuerySettled(q, out) ==
  IF out = "throw"
  THEN [q EXCEPT !.thrown = Str(QueryError), !.upstreamError = Str(QueryError),
                 !.pc = "end"]
  ELSE [q EXCEPT !.data = DbRows, !.pc = "end"]

DatasetData_Query(r) ==
  /\ req[r].pc = "query" /\ req[r].route = "data"
  /\ \E out \in Outcomes :
       req' = [req EXCEPT ![r] = DataQuerySettled(@, out)]
  /\ pools' = EndCalled(pools, req[r])
  /\ UNCHANGED <<connections, datasets, nonRouteVars>>

\* The 400 written by catch (dbError) also carries the rows held in data.
DataSqlFinishWithRows(q, out) ==
  LET dbError == IF out = "throw" THEN Str(EndError) ELSE q.thrown
  IN IF dbError # Undef
     THEN Reply([q EXCEPT !.thrown = dbError], 400,
                "SQL query execution failed", dbError, q.data)
     ELSE Reply(q, 200, "", Undef, q.data)

\* tempPool.end() settles; an error thrown by end() replaces the pending one.
\* catch (dbError) answers 400; otherwise control reaches res.status(200).
DataSqlFinish(q, out) ==
  LET dbError == IF out = "throw" THEN Str(EndError) ELSE q.thrown
  IN IF dbError # Undef
     THEN Reply([q EXCEPT !.thrown = dbError], 400,
                "SQL query execution failed", dbError, <<>>)
     ELSE Reply(q, 200, "", Undef, q.data)

DatasetData_End(r) ==
  /\ req[r].pc = "end" /\ req[r].route = "data"
  /\ \E out \in Outcomes :
       req' = [req EXCEPT ![r] = DataSqlFinish(@, out)]
  /\ pools' = EndSettled(pools, req[r])
  /\ UNCHANGED <<connections, datasets, nonRouteVars>>

\* fetch settles: a response that is ok, one that is not, or a network error.
ApiError(status, statusText) ==
  "API returned " \o ToString(status) \o ": " \o statusText

\* catch (apiError): 400 with the caught error's message.
RestFailed(q, error) ==
  Reply([q EXCEPT !.thrown = Str(error)], 400, "REST API request failed",
        Str(error), <<>>)

DatasetData_Fetch(r) ==
  /\ req[r].pc = "fetch" /\ req[r].route = "data"
  /\ \E out \in Outcomes \cup {"notok"} :
       req' = [req EXCEPT ![r] =
                 IF out = "throw"
                 THEN RestFailed([@ EXCEPT !.upstreamError = Str(FetchError)],
                                 FetchError)
                 ELSE IF out = "notok"
                 THEN RestFailed([@ EXCEPT !.upstreamError =
                                   Str(ApiError(503, "Service Unavailable"))],
                                 ApiError(503, "Service Unavailable"))
                 ELSE [@ EXCEPT !.pc = "json"]]
  /\ UNCHANGED <<connections, datasets, pools, nonRouteVars>>

\* response.json() settles; extractRESTData gives the rows.
DatasetData_Json(r) ==
  /\ req[r].pc = "json" /\ req[r].route = "data"
  /\ \E out \in Outcomes :
       req' = [req EXCEPT ![r] =
                 IF out = "throw"
                 THEN RestFailed(@, JsonError)
                 ELSE Reply(@, 200, "", Undef, <<[extracted |-> "row"]>>)]
  /\ UNCHANGED <<connections, datasets, pools, nonRouteVars>>

(* ------------- routes that return from inside the try ------------------ *)
\* try { const result = await tempPool.query(...); return res.status(200)
\*       .json(rows); } finally { await tempPool.end(); }
\* tempPool.query settles: on rows the 200 is written and the return is
\* pending; on a throw the error is pending; then finally calls end().
QueryReturn(q, out, rows) ==
  IF out = "throw"
  THEN [q EXCEPT !.thrown = Str(QueryError), !.upstreamError = Str(QueryError),
                 !.pc = "end"]
  ELSE [q EXCEPT !.res = <<Response(200, "", Undef, rows)>>, !.pc = "end"]

\* tempPool.end() settles.  With no error pending the handler returns.  An
\* error reaches catch (dbError), which writes the 400; if the 200 was
\* already written that res.json throws, the boundary catch's res.json throws
\* again, and the handler's promise rejects.
EndReturn(q, out, message) ==
  LET dbError == IF out = "throw" THEN Str(EndError) ELSE q.thrown
  IN IF dbError = Undef THEN [q EXCEPT !.pc = "done"]
     ELSE IF q.res = <<>>
     THEN Reply([q EXCEPT !.thrown = dbError], 400, message, dbError, <<>>)
     ELSE [q EXCEPT !.thrown = Str("ERR_HTTP_HEADERS_SENT"),
                    !.lateSends = @ + 2, !.pc = "crashed"]

\* The same lookup handling with the type test left out: a connection of
\* another type goes on to the connection string, which its config lacks.
SqlConnectionOnlyAnyType(q, r, connection, statement) ==
  IF ~Truthy(connection)
  THEN Reply(q, 404, "Connection not found", Undef, <<>>)
  ELSE IF connection.type # "sql"
  THEN Reply([q EXCEPT !.builderCalls = @ + 1], 400, IncompleteMessage,
             Undef, <<>>)
  ELSE LET q1 == OpenTempPool([q EXCEPT !.connection = connection], r)
       IN IF q1.tempPool = Undef THEN q1
          ELSE [q1 EXCEPT !.sqlQuery = statement, !.pc = "query"]

\* "Check if the connection exists" / "Ensure it's a SQL connection", then
\* the pool is opened and tempPool.query(statement) is called.
SqlConnectionOnly(q, r, connection, statement) ==
  IF ~Truthy(connection)
  THEN Reply(q, 404, "Connection not found", Undef, <<>>)
  ELSE IF connection.type # "sql"
  THEN Reply(q, 400, "Connection must be of type 'sql'", Undef, <<>>)
  ELSE LET q1 == OpenTempPool([q EXCEPT !.connection = connection], r)
       IN IF q1.tempPool = Undef THEN q1
          ELSE [q1 EXCEPT !.sqlQuery = statement, !.pc = "query"]

PoolsAfterOpen(q2, r) ==
  IF q2.pc = "query"
  THEN QueryPool(OpenPool(pools, q2, r), q2, q2.sqlQuery)
  ELSE OpenPool(pools, q2, r)

(* ---------------- POST /connections/execute-query ---------------------- *)
ExecuteQuery_Start(r) ==
  /\ req[r].pc = "idle" /\ r = 1
  /\ \E connectionId \in ConnectionIdInputs \cup {Undef},
        query \in BodyQueryInputs :
       LET q == [req[r] EXCEPT !.route = "executeQuery", !.id = connectionId,
                               !.query = query]
       IN req' = [req EXCEPT ![r] =
            IF ~Truthy(connectionId)
            THEN Reply(q, 400, "Connection ID is required", Undef, <<>>)
            ELSE IF ~Truthy(query) \/ query.t # "string"
            THEN Reply(q, 400, "Valid SQL query is required", Undef, <<>>)
            ELSE [q EXCEPT !.pc = "getConnection"]]
  /\ UNCHANGED <<connections, datasets, pools, nonRouteVars>>

ExecuteQuery_GetConnection(r) ==
  /\ req[r].pc = "getConnection" /\ req[r].route = "executeQuery"
  /\ \E out \in Outcomes :
       LET q == req[r]
           q2 == IF out = "throw" THEN InternalError(q, StorageError)
                 ELSE SqlConnectionOnly(q, r, getConnection(q.id), q.query.v)
       IN req' = [req EXCEPT ![r] = q2] /\ pools' = PoolsAfterOpen(q2, r)
  /\ UNCHANGED <<connections, datasets, nonRouteVars>>

ExecuteQuery_Query(r) ==
  /\ req[r].pc = "query" /\ req[r].route = "executeQuery"
  /\ \E out \in Outcomes :
       req' = [req EXCEPT ![r] = QueryReturn(@, out, DbRows)]
  /\ pools' = EndCalled(pools, req[r])
  /\ UNCHANGED <<connections, datasets, nonRouteVars>>

ExecuteQuery_End(r) ==
  /\ req[r].pc = "end" /\ req[r].route = "executeQuery"
  /\ \E out \in Outcomes :
       req' = [req EXCEPT ![r] = EndReturn(@, out, "SQL query execution failed")]
  /\ pools' = EndSettled(pools, req[r])
  /\ UNCHANGED <<connections, datasets, nonRouteVars>>

ExecuteQuery(r) ==
  \/ ExecuteQuery_Start(r)
  \/ ExecuteQuery_GetConnection(r)
  \/ ExecuteQuery_Query(r)
  \/ ExecuteQuery_End(r)

(* ------------------- GET /connections/:id/tables ----------------------- *)
TablesQuery == "SELECT table_name FROM information_schema.tables WHERE table_schema = 'public' AND table_type = 'BASE TABLE' ORDER BY table_name"

\* result.rows.map(row => row.table_name)
RECURSIVE TableNames(_)
TableNames(rows) ==
  IF rows = <<>> THEN <<>> ELSE <<rows[1].table_name>> \o TableNames(Tail(rows))

\* catch (error: any): res.status(500).json({ message: error.message || ... })
InternalErrorMessage(q, error) ==
  Reply([q EXCEPT !.thrown = Str(error)], 500,
        OrElse(Str(error), Str("Internal server error")).v, Undef, <<>>)

Tables_Start(r) ==
  /\ req[r].pc = "idle" /\ r = 1
  /\ \E id \in ConnectionIdInputs :
       req' = [req EXCEPT ![r] = [@ EXCEPT !.route = "tables", !.id = id,
                                           !.pc = "getConnection"]]
  /\ UNCHANGED <<connections, datasets, pools, nonRouteVars>>

Tables_GetConnection(r) ==
  /\ req[r].pc = "getConnection" /\ req[r].route = "tables"
  /\ \E out \in Outcomes :
       LET q == req[r]
           q2 == IF out = "throw" THEN InternalErrorMessage(q, StorageError)
                 ELSE SqlConnectionOnly(q, r, getConnection(q.id), TablesQuery)
       IN req' = [req EXCEPT ![r] = q2] /\ pools' = PoolsAfterOpen(q2, r)
  /\ UNCHANGED <<connections, datasets, nonRouteVars>>

\* tempPool.end() follows the query inside the try block instead of sitting
\* in a finally block: it is called only when the query returned.
Tables_QueryNoFinally(r) ==
  /\ req[r].pc = "query" /\ req[r].route = "tables"
  /\ \E out \in Outcomes :
       /\ req' = [req EXCEPT ![r] = QueryReturn(@, out, TableNames(DbRows))]
       /\ pools' = IF out = "ok" THEN EndCalled(pools, req[r]) ELSE pools
  /\ UNCHANGED <<connections, datasets, nonRouteVars>>

Tables_Query(r) ==
  /\ req[r].pc = "query" /\ req[r].route = "tables"
  /\ \E out \in Outcomes :
       req' = [req EXCEPT ![r] = QueryReturn(@, out, TableNames(DbRows))]
  /\ pools' = EndCalled(pools, req[r])
  /\ UNCHANGED <<connections, datasets, nonRouteVars>>

Tables_End(r) ==
  /\ req[r].pc = "end" /\ req[r].route = "tables"
  /\ \E out \in Outcomes :
       req' = [req EXCEPT ![r] =
                 EndReturn(@, out, "Failed to retrieve database tables")]
  /\ pools' = EndSettled(pools, req[r])
  /\ UNCHANGED <<connections, datasets, nonRouteVars>>

Tables(r) ==
  \/ Tables_Start(r)
  \/ Tables_GetConnection(r)
  \/ Tables_Query(r)
  \/ Tables_End(r)

(* ---------------- POST /connections/table-schema ----------------------- *)
SchemaQuery == "SELECT column_name as name, data_type as type FROM information_schema.columns WHERE table_name = $1 ORDER BY ordinal_position"

TableSchema_Start(r) ==
  /\ req[r].pc = "idle" /\ r = 1
  /\ \E connectionId \in ConnectionIdInputs \cup {Undef},
        table \in TableInputs :
       LET q == [req[r] EXCEPT !.route = "tableSchema", !.id = connectionId,
                               !.table = table]
       IN req' = [req EXCEPT ![r] =
            IF ~Truthy(connectionId)
            THEN Reply(q, 400, "Connection ID is required", Undef, <<>>)
            ELSE IF ~Truthy(table) \/ table.t # "string"
            THEN Reply(q, 400, "Table name is required", Undef, <<>>)
            ELSE [q EXCEPT !.pc = "getConnection"]]
  /\ UNCHANGED <<connections, datasets, pools, nonRouteVars>>

TableSchema_GetConnection(r) ==
  /\ req[r].pc = "getConnection" /\ req[r].route = "tableSchema"
  /\ \E out \in Outcomes :
       LET q == req[r]
           q2 == IF out = "throw" THEN InternalErrorMessage(q, StorageError)
                 ELSE SqlConnectionOnly(q, r, getConnection(q.id), SchemaQuery)
       IN req' = [req EXCEPT ![r] = q2] /\ pools' = PoolsAfterOpen(q2, r)
  /\ UNCHANGED <<connections, datasets, nonRouteVars>>

TableSchema_Query(r) ==
  /\ req[r].pc = "query" /\ req[r].route = "tableSchema"
  /\ \E out \in Outcomes :
       req' = [req EXCEPT ![r] = QueryReturn(@, out, DbRows)]
  /\ pools' = EndCalled(pools, req[r])
  /\ UNCHANGED <<connections, datasets, nonRouteVars>>

TableSchema_End(r) ==
  /\ req[r].pc = "end" /\ req[r].route = "tableSchema"
  /\ \E out \in Outcomes :
       req' = [req EXCEPT ![r] =
                 EndReturn(@, out, "Failed to retrieve table schema")]
  /\ pools' = EndSettled(pools, req[r])
  /\ UNCHANGED <<connections, datasets, nonRouteVars>>

TableSchema(r) ==
  \/ TableSchema_Start(r)
  \/ TableSchema_GetConnection(r)
  \/ TableSchema_Query(r)
  \/ TableSchema_End(r)

(* ----------------- dataset custom query route -------------------------- *)
\* Mutant: the user's query is run without the CTE.
DatasetSqlQueryBare(dataset, query) == query

\* Mutant: the CTE is named without the dataset id.
DatasetSqlQueryNoId(dataset, query) ==
  IF Truthy(dataset.query)
  THEN "WITH dataset AS (" \o dataset.query.v \o ") " \o query
  ELSE query

\* "If the dataset has a defined query, use it as a CTE".
DatasetSqlQuery(dataset, query) ==
  IF Truthy(dataset.query)
  THEN "WITH dataset_" \o ToString(dataset.id) \o " AS ("
         \o dataset.query.v \o ") " \o query
  ELSE query

\* The route's opening, up to the storage.getDataset call: the request
\* carries the dataset id and body.query, which must be a non-empty string.
DatasetQuery_Start(r) ==
  /\ req[r].pc = "idle" /\ r = 1
  /\ \E id \in DatasetIdInputs, query \in BodyQueryInputs :
       LET q == [req[r] EXCEPT !.route = "datasetQuery", !.id = id,
                               !.query = query]
       IN req' = [req EXCEPT ![r] =
            IF ~Truthy(query) \/ query.t # "string"
            THEN Reply(q, 400, "Valid SQL query is required", Undef, <<>>)
            ELSE [q EXCEPT !.pc = "getDataset"]]
  /\ UNCHANGED <<connections, datasets, pools, nonRouteVars>>

\* storage.getDataset settles: 404 when the dataset id does not resolve.
DatasetQuery_GetDataset(r) ==
  /\ req[r].pc = "getDataset" /\ req[r].route = "datasetQuery"
  /\ \E out \in Outcomes :
       LET q == req[r]
           dataset == getDataset(q.id)
       IN req' = [req EXCEPT ![r] =
            IF out = "throw" THEN InternalError(q, StorageError)
            ELSE IF ~Truthy(dataset)
            THEN Reply(q, 404, "Dataset not found", Undef, <<>>)
            ELSE IF dataset.connectionId = Null
            THEN Reply(q, 400, "Dataset has no associated connection", Undef, <<>>)
            ELSE [q EXCEPT !.dataset = dataset, !.pc = "getConnection"]]
  /\ UNCHANGED <<connections, datasets, pools, nonRouteVars>>

\* storage.getConnection settles: 404 / 400 for a missing or non-sql
\* connection, then the pool is opened and the composed statement is issued.
DatasetQuery_GetConnection(r) ==
  /\ req[r].pc = "getConnection" /\ req[r].route = "datasetQuery"
  /\ \E out \in Outcomes :
       LET q == req[r]
           q2 == IF out = "throw" THEN InternalError(q, StorageError)
                 ELSE SqlConnectionOnly(q, r, getConnection(q.dataset.connectionId),
                                        DatasetSqlQuery(q.dataset, q.query.v))
       IN req' = [req EXCEPT ![r] = q2] /\ pools' = PoolsAfterOpen(q2, r)
  /\ UNCHANGED <<connections, datasets, nonRouteVars>>

DatasetQuery_Query(r) ==
  /\ req[r].pc = "query" /\ req[r].route = "datasetQuery"
  /\ \E out \in Outcomes :
       req' = [req EXCEPT ![r] = QueryReturn(@, out, DbRows)]
  /\ pools' = EndCalled(pools, req[r])
  /\ UNCHANGED <<connections, datasets, nonRouteVars>>

DatasetQuery_End(r) ==
  /\ req[r].pc = "end" /\ req[r].route = "datasetQuery"
  /\ \E out \in Outcomes :
       req' = [req EXCEPT ![r] = EndReturn(@, out, "SQL query execution failed")]
  /\ pools' = EndSettled(pools, req[r])
  /\ UNCHANGED <<connections, datasets, nonRouteVars>>

DatasetQuery(r) ==
  \/ DatasetQuery_Start(r)
  \/ DatasetQuery_GetDataset(r)
  \/ DatasetQuery_GetConnection(r)
  \/ DatasetQuery_Query(r)
  \/ DatasetQuery_End(r)

DatasetData(r) ==
  \/ DatasetData_Start(r)
  \/ DatasetData_GetDataset(r)
  \/ DatasetData_GetConnection(r)
  \/ DatasetData_Query(r)
  \/ DatasetData_End(r)
  \/ DatasetData_Fetch(r)
  \/ DatasetData_Json(r)

Next ==
  \E r \in Reqs :
    \/ DatasetData(r)
    \/ ExecuteQuery(r)
    \/ Tables(r)
    \/ TableSchema(r)
    \/ DatasetQuery(r)

Spec == Init /\ [][Next]_vars

(* ======================= WebSocket registry ============================ *)
\* typeof message === 'string' ? message : JSON.stringify(message)
MessageString(message) ==
  IF message.t = "string" THEN message ELSE Stringify(message)

\* The clients the forEach calls send() on: registered and OPEN.
SendTargets(active, socks) ==
  {c \in active : socks[c].readyState = "OPEN"}

\* The broadcast without the clean-up loop: deadClients is collected but
\* nothing is deleted from the registry.
BroadcastedKeepsDead(active, socks, message, out, t) ==
  IF message.t # "string" /\ out = "throw"
  THEN [active |-> active,
        last |-> [NoBroadcast EXCEPT !.returned = TRUE, !.message = message,
                                     !.before = active]]
  ELSE LET targets == SendTargets(active, socks)
           threw == t \cap targets
       IN [active |-> active,
           last |-> [returned |-> TRUE, threwToCaller |-> FALSE,
                     message |-> MessageString(message), before |-> active,
                     observed |-> active, sendCalls |-> targets,
                     threw |-> threw]]

\* broadcastWebSocketMessage(message) on the registry `active`: out is
\* whether JSON.stringify returns or throws, t the clients whose send()
\* throws.  Gives the registry afterwards and the record of what was done.
Broadcasted(active, socks, message, out, t) ==
  IF message.t # "string" /\ out = "throw"
  THEN [active |-> active,
        last |-> [NoBroadcast EXCEPT !.returned = TRUE, !.message = message,
                                     !.before = active]]
  ELSE LET targets == SendTargets(active, socks)
           threw == t \cap targets
           deadClients ==
             {c \in active : socks[c].readyState \in {"CLOSED", "CLOSING"}}
               \cup threw
       IN [active |-> active \ deadClients,
           last |-> [returned |-> TRUE, threwToCaller |-> FALSE,
                     message |-> MessageString(message), before |-> active,
                     observed |-> active, sendCalls |-> targets,
                     threw |-> threw]]

MessageInputs == {Str("ping"), Obj([type |-> "refresh"])}

broadcastWebSocketMessage ==
  \E message \in MessageInputs, out \in Outcomes, t \in SUBSET Clients :
    LET b == Broadcasted(activeClients, sockets, message, out, t)
    IN /\ activeClients' = b.active
       /\ lastBroadcast' = b.last
       /\ UNCHANGED <<sockets, live, openai, calls, nonWsVars>>

\* The argument of register / unregister: a reference to socket c, or null.
Socket(c) == [t |-> "socket", id |-> c]
ClientInputs == {Socket(c) : c \in Clients} \cup {Null}

\* registerWebSocketClient without the readyState test: only null is
\* turned away.
registerWebSocketClientAnyState(client) ==
  /\ IF ~Truthy(client) THEN UNCHANGED <<activeClients, sockets, live>>
     ELSE /\ sockets' = [sockets EXCEPT ![client.id].isAlive = TRUE,
                                        ![client.id].closeListener = TRUE]
          /\ activeClients' = activeClients \cup {client.id}
          /\ live' = [live EXCEPT ![client.id] =
                        sockets[client.id].readyState # "CLOSED"]
  /\ lastBroadcast' = NoBroadcast
  /\ UNCHANGED <<openai, calls, nonWsVars>>

\* registerWebSocketClient(client)
registerWebSocketClient(client) ==
  /\ IF ~Truthy(client) THEN UNCHANGED <<activeClients, sockets, live>>
     ELSE IF sockets[client.id].readyState = "CLOSED"
     THEN UNCHANGED <<activeClients, sockets, live>>
     ELSE /\ sockets' = [sockets EXCEPT ![client.id].isAlive = TRUE,
                                        ![client.id].closeListener = TRUE]
          /\ activeClients' = activeClients \cup {client.id}
          /\ live' = [live EXCEPT ![client.id] = TRUE]
  /\ lastBroadcast' = NoBroadcast
  /\ UNCHANGED <<openai, calls, nonWsVars>>

\* unregisterWebSocketClient(client) applied to the registry and sockets st;
\* close() on a socket that is not CLOSED or CLOSING starts the closing
\* handshake.
Unregistered(st, client) ==
  IF ~Truthy(client) THEN st
  ELSE LET closes ==
             st.sockets[client.id].readyState \notin {"CLOSED", "CLOSING"}
       IN [active |-> st.active \ {client.id},
           sockets |->
             IF closes
             THEN [st.sockets EXCEPT ![client.id].closeCalls = @ + 1,
                                     ![client.id].readyState = "CLOSING"]
             ELSE st.sockets]

Registry == [active |-> activeClients, sockets |-> sockets]

unregisterWebSocketClient(client) ==
  /\ LET st == Unregistered(Registry, client)
     IN activeClients' = st.active /\ sockets' = st.sockets
  /\ live' = IF ~Truthy(client) THEN live
             ELSE [live EXCEPT ![client.id] = FALSE]
  /\ lastBroadcast' = NoBroadcast
  /\ UNCHANGED <<openai, calls, nonWsVars>>

\* The socket's connection is established.
SocketOpen(c) ==
  /\ sockets[c].readyState = "CONNECTING"
  /\ sockets' = [sockets EXCEPT ![c].readyState = "OPEN"]
  /\ lastBroadcast' = NoBroadcast
  /\ UNCHANGED <<activeClients, live, openai, calls, nonWsVars>>

\* The peer starts the closing handshake.
SocketClosing(c) ==
  /\ sockets[c].readyState \in {"CONNECTING", "OPEN"}
  /\ sockets' = [sockets EXCEPT ![c].readyState = "CLOSING"]
  /\ lastBroadcast' = NoBroadcast
  /\ UNCHANGED <<activeClients, live, openai, calls, nonWsVars>>

\* The socket is closed and emits 'close'; the listener attached by
\* registerWebSocketClient runs activeClients.delete(client).
SocketClose(c) ==
  /\ sockets[c].readyState # "CLOSED"
  /\ sockets' = [sockets EXCEPT ![c].readyState = "CLOSED"]
  /\ activeClients' = IF sockets[c].closeListener THEN activeClients \ {c}
                      ELSE activeClients
  /\ live' = [live EXCEPT ![c] = FALSE]
  /\ lastBroadcast' = NoBroadcast
  /\ UNCHANGED <<openai, calls, nonWsVars>>

(* ========================= generateAIResponse ========================== *)
StatusMessage(status) ==
  Obj([type |-> "data-update", dataset |-> "ai-request", status |-> status])

\* { type: 'error', message: 'Error processing AI request: ' + error.message }
ErrorMessage(error) ==
  Obj([type |-> "error", message |-> "Error processing AI request: " \o error])

Fallback ==
  "I'm sorry, I encountered an error processing your request. Please try again later."

NotInitialized ==
  "OpenAI client is not initialized. Please check your API key."

\* What openai.chat.completions.create can resolve with: a completion with
\* text, with empty or null content, or with no choices at all.
Completion(content) == Obj([choices |-> <<[message |-> [content |-> content]]>>])
NoChoices == Obj([choices |-> <<>>])
CompletionInputs ==
  {Completion(Str("Use a bar chart")), Completion(Str("")), Completion(Null),
   NoChoices}

\* catch (error): the 'error' broadcast, then the fallback string.
AiFailed(run, error) ==
  [call |-> [run.call EXCEPT !.pc = "returned", !.log = Append(@, "error"),
                             !.result = Str(Fallback)],
   messages |-> Append(run.messages, ErrorMessage(error))]

\* The run of a call from its invocation to `await openai...create(...)`.
AiStarted(call, client) ==
  LET run == [call |-> [call EXCEPT !.log = <<"processing", "sending">>,
                                    !.pc = "awaiting"],
              messages |-> <<StatusMessage("processing"),
                             StatusMessage("sending")>>]
  IN IF ~client THEN AiFailed(run, NotInitialized) ELSE run

\* The run of a call after create() settled: rejected with `error`, or
\* resolved with `completion`.
AiSettled(call, out, completion) ==
  LET run == [call |-> call, messages |-> <<>>]
  IN IF out = "throw" THEN AiFailed(run, "Request timed out.")
     ELSE LET done == [call |-> [call EXCEPT !.log = Append(@, "completed")],
                       messages |-> <<StatusMessage("completed")>>]
          IN IF completion.v.choices = <<>>
             THEN AiFailed(done,
                    "Cannot read properties of undefined (reading 'message')")
             ELSE [done EXCEPT
                     !.call.pc = "returned",
                     !.call.result =
                        OrElse(completion.v.choices[1].message.content,
                               Str("I'm sorry, I couldn't generate a response."))]

\* The broadcasts of one synchronous stretch, in order; ts[i] are the
\* clients whose send() throws during the i-th.
RECURSIVE BroadcastSeq(_, _, _, _, _)
BroadcastSeq(active, socks, last, messages, ts) ==
  IF messages = <<>> THEN [active |-> active, last |-> last]
  ELSE LET b == Broadcasted(active, socks, Head(messages), "ok", Head(ts))
       IN BroadcastSeq(b.active, socks, b.last, Tail(messages), Tail(ts))

AiStep(k, run) ==
  /\ calls' = [calls EXCEPT ![k] = run.call]
  /\ \E ts \in [1..Len(run.messages) -> SUBSET Clients] :
       LET b == BroadcastSeq(activeClients, sockets, NoBroadcast,
                             run.messages, ts)
       IN activeClients' = b.active /\ lastBroadcast' = b.last
  /\ UNCHANGED <<sockets, live, openai, nonWsVars>>

generateAIResponse_Start(k) ==
  /\ calls[k].pc = "idle"
  /\ AiStep(k, AiStarted(calls[k], openai))

generateAIResponse_Settle(k) ==
  /\ calls[k].pc = "awaiting"
  /\ \E out \in Outcomes, completion \in CompletionInputs :
       AiStep(k, AiSettled(calls[k], out, completion))

(* --------------------------- specification ----------------------------- *)
\* Sockets are handed to the server connecting or open; the OpenAI client
\* was constructed at module load or, without an API key, left null.
InitWs ==
  /\ RoutesQuiet /\ SpacesQuiet /\ MigrationQuiet
  /\ activeClients = {}
  /\ sockets \in [Clients -> {NewSocket("CONNECTING"), NewSocket("OPEN")}]
  /\ lastBroadcast = NoBroadcast
  /\ live = [c \in Clients |-> FALSE]
  /\ openai \in BOOLEAN
  /\ calls = [k \in Calls |-> IdleCall]

NextWs ==
  \/ broadcastWebSocketMessage
  \/ \E client \in ClientInputs :
       \/ registerWebSocketClient(client)
       \/ unregisterWebSocketClient(client)
  \/ \E c \in Clients :
       \/ SocketOpen(c)
       \/ SocketClosing(c)
       \/ SocketClose(c)
  \/ \E k \in Calls :
       \/ generateAIResponse_Start(k)
       \/ generateAIResponse_Settle(k)

SpecWs == InitWs /\ [][NextWs]_vars

(* ========================= POST /api/spaces ============================ *)
\* getServerSession: no session, the stored user's, or one whose user row
\* no longer exists.
SessionInputs ==
  {Undef, Obj([user |-> [email |-> "ann@example.org"]]),
   Obj([user |-> [email |-> "bob@example.org"]])}

\* formData.get('name'): missing, empty, or a name.
NameInputs == {Null, Str(""), Str("Team A")}

\* name.toLowerCase().replace(/\s+/g, '-').replace(/[^\w-]+/g, '')
Slug(name) == IF name = "Team A" THEN "team-a" ELSE name

\* NextResponse.json(..., { status }) / NextResponse.redirect(...)
Respond(post, status) == [post EXCEPT !.pc = "done", !.status = status]

\* .set({ isDefault: false }).where(eq(spaces.isDefault, true))
ClearDefaults(rows) ==
  [i \in DOMAIN rows |-> [rows[i] EXCEPT !.isDefault = FALSE]]

DefaultIds(rows) == {rows[i].id : i \in {j \in DOMAIN rows : rows[j].isDefault}}

\* The request arrives; getServerSession is awaited.
POST_Start(p) ==
  /\ posts[p].pc = "idle"
  /\ \E session \in SessionInputs, name \in NameInputs, isDefault \in BOOLEAN :
       posts' = [posts EXCEPT ![p] =
                   [@ EXCEPT !.session = session, !.name = name,
                             !.isDefault = isDefault, !.pc = "session"]]
  /\ UNCHANGED <<spaces, userSpaces, nonSpaceVars>>

\* The session and the form data have settled: 401, 400, or on to the
\* update of the defaults or the user lookup.
POST_FormData(p) ==
  /\ posts[p].pc = "session"
  /\ \E out \in Outcomes :
       posts' = [posts EXCEPT ![p] =
                   IF out = "throw" THEN Respond(@, 500)
                   ELSE IF ~Truthy(@.session) THEN Respond(@, 401)
                   ELSE IF ~Truthy(@.name) THEN Respond(@, 400)
                   ELSE IF @.isDefault THEN [@ EXCEPT !.pc = "update"]
                   ELSE [@ EXCEPT !.pc = "findUser"]]
  /\ UNCHANGED <<spaces, userSpaces, nonSpaceVars>>

\* await db.update(spaces).set({ isDefault: false }).where(...)
POST_Update(p) ==
  /\ posts[p].pc = "update"
  /\ \E out \in Outcomes :
       IF out = "throw"
       THEN /\ posts' = [posts EXCEPT ![p] = Respond(@, 500)]
            /\ UNCHANGED spaces
       ELSE /\ spaces' = ClearDefaults(spaces)
            /\ posts' = [posts EXCEPT ![p] =
                           [@ EXCEPT !.cleared = DefaultIds(spaces),
                                     !.pc = "findUser"]]
  /\ UNCHANGED <<userSpaces, nonSpaceVars>>

\* await db.query.users.findFirst({ where: eq(users.email, ...) })
POST_FindUser(p) ==
  /\ posts[p].pc = "findUser"
  /\ \E out \in Outcomes :
       LET found == {u \in StoredUsers :
                       u.email = posts[p].session.v.user.email}
       IN posts' = [posts EXCEPT ![p] =
                      IF out = "throw" THEN Respond(@, 500)
                      ELSE IF found = {} THEN Respond(@, 404)
                      ELSE [@ EXCEPT !.user = Obj(CHOOSE u \in found : TRUE),
                                     !.pc = "insertSpace"]]
  /\ UNCHANGED <<spaces, userSpaces, nonSpaceVars>>

\* const [newSpace] = await db.insert(spaces).values({...}).returning()
POST_InsertSpace(p) ==
  /\ posts[p].pc = "insertSpace"
  /\ \E out \in Outcomes :
       IF out = "throw"
       THEN /\ posts' = [posts EXCEPT ![p] = Respond(@, 500)]
            /\ UNCHANGED spaces
       ELSE LET id == Len(spaces) + 1
            IN /\ spaces' = Append(spaces,
                               SpaceRow(id, Slug(posts[p].name.v),
                                        posts[p].isDefault))
               /\ posts' = [posts EXCEPT ![p] =
                              [@ EXCEPT !.newSpace = Num(id),
                                        !.pc = "insertOwner"]]
  /\ UNCHANGED <<userSpaces, nonSpaceVars>>

\* await db.insert(userSpaces).values({...}); then the redirect.
POST_InsertOwner(p) ==
  /\ posts[p].pc = "insertOwner"
  /\ \E out \in Outcomes :
       IF out = "throw"
       THEN /\ posts' = [posts EXCEPT ![p] = Respond(@, 500)]
            /\ UNCHANGED userSpaces
       ELSE /\ userSpaces' = userSpaces \cup
                  {OwnerRow(posts[p].user.v.id, posts[p].newSpace.v)}
            /\ posts' = [posts EXCEPT ![p] = Respond(@, 307)]
  /\ UNCHANGED <<spaces, nonSpaceVars>>

InitSpaces ==
  /\ RoutesQuiet /\ WsQuiet /\ MigrationQuiet
  /\ SpacesQuiet

NextSpaces ==
  \E p \in Posts :
    \/ POST_Start(p)
    \/ POST_FormData(p)
    \/ POST_Update(p)
    \/ POST_FindUser(p)
    \/ POST_InsertSpace(p)
    \/ POST_InsertOwner(p)

SpecSpaces == InitSpaces /\ [][NextSpaces]_vars

(* ======================== migrateAlertsTables ========================== *)
\* catch (error) { throw error }: the run rejects.
MigrationRejected == [migration EXCEPT !.pc = "rejected"]

\* migrateAlertsTables() is called, the previous run having settled.
Migrate_Start ==
  /\ migration.pc \in {"idle", "done", "rejected"}
  /\ migration.run < MaxRuns
  /\ migration' = [pc |-> "alerts", i |-> 1, run |-> migration.run + 1,
                    ddl |-> 0, prevOk |-> migration.pc = "done"]
  /\ UNCHANGED <<schema, nonMigrationVars>>

\* One column of db_qa_alerts: the information_schema check and, when the
\* column is missing, ALTER TABLE db_qa_alerts ADD COLUMN.  out = "throw":
\* one of the two statements fails.
Migrate_AlertColumn ==
  /\ migration.pc = "alerts"
  /\ \E out \in Outcomes :
       LET column == AlertColumns[migration.i]
           missing == column \notin schema.alerts
           next == IF migration.i < Len(AlertColumns)
                   THEN [migration EXCEPT !.i = @ + 1]
                   ELSE [migration EXCEPT !.pc = "history", !.i = 1]
       IN IF out = "throw"
          THEN migration' = MigrationRejected /\ UNCHANGED schema
          ELSE IF missing
          THEN /\ schema' = [schema EXCEPT !.alerts = @ \cup {column}]
               /\ migration' = [next EXCEPT !.ddl = @ + 1]
          ELSE migration' = next /\ UNCHANGED schema
  /\ UNCHANGED nonMigrationVars

\* db_qa_alert_history: the table check and, when it is missing,
\* CREATE TABLE IF NOT EXISTS with its two indexes.
Migrate_History ==
  /\ migration.pc = "history"
  /\ \E out \in Outcomes :
       IF out = "throw"
       THEN migration' = MigrationRejected /\ UNCHANGED schema
       ELSE IF ~schema.history
       THEN /\ schema' = [schema EXCEPT !.history = TRUE]
            /\ migration' = [migration EXCEPT !.pc = "notifications",
                                               !.ddl = @ + 1]
       ELSE /\ migration' = [migration EXCEPT !.pc = "notifications"]
            /\ UNCHANGED schema
  /\ UNCHANGED nonMigrationVars

\* db_qa_alert_notifications: the table check; a missing table is created
\* with the columns of the CREATE TABLE statement and the run returns true;
\* an existing one goes on to the column checks of the else branch.
Migrate_Notifications ==
  /\ migration.pc = "notifications"
  /\ \E out \in Outcomes :
       IF out = "throw"
       THEN migration' = MigrationRejected /\ UNCHANGED schema
       ELSE IF ~schema.notifications
       THEN /\ schema' = [schema EXCEPT !.notifications = TRUE,
                                         !.notificationColumns = {}]
            /\ migration' = [migration EXCEPT !.pc = "done", !.ddl = @ + 1]
       ELSE /\ migration' = [migration EXCEPT !.pc = "columns", !.i = 1]
            /\ UNCHANGED schema
  /\ UNCHANGED nonMigrationVars

\* One column of db_qa_alert_notifications, in the else branch; after the
\* last one the run returns true.
Migrate_NotificationColumn ==
  /\ migration.pc = "columns"
  /\ \E out \in Outcomes :
       LET column == NotificationColumns[migration.i]
           missing == column \notin schema.notificationColumns
           next == IF migration.i < Len(NotificationColumns)
                   THEN [migration EXCEPT !.i = @ + 1]
                   ELSE [migration EXCEPT !.pc = "done", !.i = 1]
       IN IF out = "throw"
          THEN migration' = MigrationRejected /\ UNCHANGED schema
          ELSE IF missing
          THEN /\ schema' = [schema EXCEPT
                                !.notificationColumns = @ \cup {column}]
               /\ migration' = [next EXCEPT !.ddl = @ + 1]
          ELSE migration' = next /\ UNCHANGED schema
  /\ UNCHANGED nonMigrationVars

\* Any schema state: any subset of the target columns of db_qa_alerts, each
\* table present or not, any subset of the added columns of an existing
\* db_qa_alert_notifications.
InitMigration ==
  /\ RoutesQuiet /\ WsQuiet /\ SpacesQuiet
  /\ \E alerts \in SUBSET Range(AlertColumns), history \in BOOLEAN,
        columns \in SUBSET Range(NotificationColumns),
        notifications \in BOOLEAN :
       /\ ~notifications => columns = {}
       /\ schema = [alerts |-> alerts, history |-> history,
                    notifications |-> notifications,
                    notificationColumns |-> columns]
  /\ migration = NoMigration

NextMigration ==
  \/ Migrate_Start
  \/ Migrate_AlertColumn
  \/ Migrate_History
  \/ Migrate_Notifications
  \/ Migrate_NotificationColumn

SpecMigration == InitMigration /\ [][NextMigration]_vars

(* ============================ properties =============================== *)
Finished(q) == q.pc \in {"done", "crashed"}
Responded(q) == q.res # <<>>
Status(q) == q.res[1].status

\* C1: in the SQL data fetch and the custom-query routes, a pool that was
\* created has had end() called exactly once by the time the handler has
\* finished, whether the query returned rows or threw; end() is never called
\* twice, and never on a pool that was not created.
C1_EndExactlyOnce ==
  \A r \in Reqs :
    req[r].route \in {"data", "executeQuery", "datasetQuery"} =>
      /\ pools[r].endCalls <= 1
      /\ ~pools[r].created => pools[r].endCalls = 0
      /\ pools[r].created /\ Finished(req[r]) => pools[r].endCalls = 1
      /\ pools[r].created /\ req[r].pc = "end" => pools[r].endCalls = 1

\* A data fetch whose query returned rows and a custom query that threw have
\* both finished, each with its pool closed once.
C1_Witness ==
  \E r1, r2 \in Reqs :
    /\ req[r1].route = "executeQuery" /\ Finished(req[r1])
    /\ req[r1].upstreamError = Str(QueryError) /\ pools[r1].endCalls = 1
    /\ req[r2].route = "data" /\ Finished(req[r2]) /\ Status(req[r2]) = 200
    /\ pools[r2].created /\ pools[r2].endCalls = 1

\* C2 as claimed: in every SQL route, whenever a response has been written
\* for a request that created a pool, that pool's end() has already settled.
C2_EndBeforeResponse ==
  \A r \in Reqs :
    pools[r].created /\ Responded(req[r]) => pools[r].ended

\* C2 amended: the pool's end() has settled before the handler returns on
\* every exit path; it has also settled before the response is written,
\* except on the success path of the routes that return res.json from inside
\* the try block (all SQL routes but GET /datasets/:id/data), where the 200
\* is written first.
C2_EndBeforeReturn ==
  \A r \in Reqs :
    pools[r].created =>
      /\ Finished(req[r]) => pools[r].ended /\ pools[r].endCalls = 1
      /\ Responded(req[r]) /\ ~pools[r].ended =>
           /\ req[r].route # "data"
           /\ Status(req[r]) = 200
           /\ req[r].upstreamError = Undef

\* A data fetch has answered after closing its pool while an execute-query
\* request has written its 200 and is still waiting for end().
C2_Witness ==
  \E r1, r2 \in Reqs :
    /\ req[r1].route = "executeQuery" /\ Responded(req[r1])
    /\ req[r1].pc = "end" /\ ~pools[r1].ended
    /\ req[r2].route = "data" /\ Responded(req[r2]) /\ pools[r2].ended

\* The connection the handler resolved is a sql connection with a config.
SqlConnection(q) ==
  /\ Truthy(q.connection) /\ q.connection.type = "sql"
  /\ Truthy(q.connection.config)

\* C3: a sql connection with no connectionString from which none can be
\* synthesized (buildPgConnectionString returns null) is answered 400 with
\* the configuration message; no pool is constructed and no query is issued.
C3_IncompleteConfigNoPool ==
  \A r \in Reqs :
    LET q == req[r]
    IN SqlConnection(q) /\ ~Truthy(q.connection.config.v.connectionString)
         /\ buildPgConnectionString(q.connection.config) = Null =>
       /\ q.pc = "done" /\ Status(q) = 400
       /\ q.res[1].message = IncompleteMessage
       /\ q.tempPool = Undef
       /\ ~pools[r].created /\ pools[r].queries = <<>>

\* The data fetch on dataset 6 (connection 3, no database) was answered 400.
C3_Witness ==
  \E r \in Reqs :
    /\ req[r].route = "data" /\ SqlConnection(req[r])
    /\ req[r].connection.id = 3 /\ req[r].builderCalls = 1
    /\ Finished(req[r]) /\ Status(req[r]) = 400

\* C4: with config.connectionString truthy, the pool is opened with exactly
\* that string and buildPgConnectionString is not called, in the dataset
\* data, execute-query, list-tables and table-schema routes.
C4_ConnectionStringVerbatim ==
  \A r \in Reqs :
    LET q == req[r]
    IN q.route \in {"data", "executeQuery", "tables", "tableSchema"}
         /\ SqlConnection(q) /\ Truthy(q.connection.config.v.connectionString) =>
       /\ q.builderCalls = 0
       /\ pools[r].created
       /\ pools[r].connectionString = q.connection.config.v.connectionString.v
       /\ pools[r].connectionString = "postgres://app@db/main"

\* list-tables opened its pool on connection 1 with the stored string.
C4_Witness ==
  \E r \in Reqs :
    /\ req[r].route = "tables" /\ SqlConnection(req[r])
    /\ req[r].connection.id = 1 /\ pools[r].created
    /\ pools[r].connectionString = "postgres://app@db/main"

\* C5: in the dataset custom-query route the statement passed to the pool is
\* exactly 'WITH dataset_<n> AS (<q>) <u>' for a dataset n with a non-empty
\* stored query q and request query u, and exactly u when the dataset stores
\* no query.
C5_CteStatement ==
  \A r \in Reqs :
    LET q == req[r]
    IN q.route = "datasetQuery" /\ pools[r].created =>
       /\ Len(pools[r].queries) = 1
       /\ Truthy(q.dataset.query) =>
            pools[r].queries[1] =
              "WITH dataset_" \o ToString(q.dataset.id) \o " AS ("
                \o q.dataset.query.v \o ") " \o q.query.v
       /\ ~Truthy(q.dataset.query) => pools[r].queries[1] = q.query.v
       /\ q.dataset.id = 5 =>
            pools[r].queries[1] =
              "WITH dataset_5 AS (SELECT a FROM t) SELECT * FROM dataset_5"

\* The custom query on dataset 5 issued the wrapped statement.
C5_Witness ==
  \E r \in Reqs :
    /\ req[r].route = "datasetQuery" /\ req[r].dataset # Undef
    /\ req[r].dataset.id = 5
    /\ pools[r].queries =
         <<"WITH dataset_5 AS (SELECT a FROM t) SELECT * FROM dataset_5">>

\* The request's customQuery is a non-empty string.
HasCustomQuery(q) == q.query.t = "string" /\ q.query.v # ""
HasTable(dataset) ==
  dataset.config.t = "object" /\ Truthy(dataset.config.v.table)

\* C6: in GET /datasets/:id/data on a sql connection the statement executed
\* is the request's customQuery when that is a non-empty string; otherwise
\* the dataset's stored query when present; otherwise
\* 'SELECT * FROM <table> LIMIT 100' when dataset.config.table is set.
C6_QueryPrecedence ==
  \A r \in Reqs :
    LET q == req[r]
    IN q.route = "data" /\ pools[r].created =>
       /\ Len(pools[r].queries) = 1
       /\ HasCustomQuery(q) => pools[r].queries[1] = q.query.v
       /\ ~HasCustomQuery(q) /\ Truthy(q.dataset.query) =>
            pools[r].queries[1] = q.dataset.query.v
       /\ ~HasCustomQuery(q) /\ ~Truthy(q.dataset.query) /\ HasTable(q.dataset) =>
            pools[r].queries[1] = "SELECT * FROM orders LIMIT 100"

\* Dataset 5 (stored query and table) was fetched with a customQuery, and
\* the customQuery is what was executed.
C6_Witness ==
  \E r \in Reqs :
    /\ req[r].route = "data" /\ pools[r].created /\ HasCustomQuery(req[r])
    /\ req[r].dataset.id = 5 /\ pools[r].queries = <<Override>>

\* C7 as claimed: on both routes that accept an override, when the dataset
\* has a stored query the statement executed is the override wrapped in the
\* CTE dataset_<id>.
C7_OverrideAlwaysWrapped ==
  \A r \in Reqs :
    LET q == req[r]
    IN q.route \in {"data", "datasetQuery"} /\ pools[r].created
         /\ HasCustomQuery(q) /\ Truthy(q.dataset.query) =>
       pools[r].queries =
         <<"WITH dataset_" \o ToString(q.dataset.id) \o " AS ("
             \o q.dataset.query.v \o ") " \o q.query.v>>

\* C7 amended: when the dataset has a stored query, the dataset custom-query
\* route executes the override wrapped in the CTE dataset_<id>, while
\* GET /datasets/:id/data executes the customQuery bare, in place of the
\* stored query.
C7_OverrideWrappedInCustomRouteOnly ==
  \A r \in Reqs :
    LET q == req[r]
        wrapped == "WITH dataset_" \o ToString(q.dataset.id) \o " AS ("
                     \o q.dataset.query.v \o ") " \o q.query.v
    IN pools[r].created /\ q.dataset # Undef /\ HasCustomQuery(q)
         /\ Truthy(q.dataset.query) =>
       /\ q.route = "datasetQuery" => pools[r].queries = <<wrapped>>
       /\ q.route = "data" =>
            pools[r].queries = <<q.query.v>> /\ q.query.v # wrapped

\* The data fetch on dataset 4 ran the customQuery bare.
C7_Witness ==
  \E r \in Reqs :
    /\ req[r].route = "data" /\ pools[r].created /\ HasCustomQuery(req[r])
    /\ req[r].dataset.id = 4 /\ pools[r].queries = <<Override>>

\* The dataset id of the request, or its dataset's connectionId, does not
\* resolve in the registries.
Unresolved(q) ==
  LET dataset == getDataset(q.id)
  IN \/ ~Truthy(dataset)
     \/ /\ dataset.connectionId # Null
        /\ ~Truthy(getConnection(dataset.connectionId))

\* C8: in GET /datasets/:id/data, when the dataset id or the dataset's
\* connectionId does not resolve (and no lookup threw), the response is 404,
\* and no pool is constructed, no outbound request made, no CSV parsed.
C8_UnresolvedIs404 ==
  \A r \in Reqs :
    LET q == req[r]
    IN q.route = "data" /\ q.thrown = Undef /\ Unresolved(q) =>
       /\ ~pools[r].created /\ q.tempPool = Undef
       /\ q.fetchCalls = <<>> /\ q.parseCalls = 0
       /\ q.pc \in {"getDataset", "getConnection", "done"}
       /\ Responded(q) => Status(q) = 404
       /\ q.pc = "getConnection" => Truthy(getDataset(q.id))
       /\ q.pc = "done" => Responded(q)

\* The fetch of dataset 19, whose connection 99 is not stored, ended in 404.
C8_Witness ==
  \E r \in Reqs :
    /\ req[r].route = "data" /\ req[r].id = Num(19) /\ req[r].dataset # Undef
    /\ req[r].pc = "done" /\ Status(req[r]) = 404 /\ ~pools[r].created

\* The RequestInit of the fetch a rest request made, and its connection config.
SentHeaders(q) == q.fetchCalls[1].options.headers
RestAuth(q) == q.connection.config.v.auth
NoAuthInjected(q) ==
  \/ ~Truthy(RestAuth(q))
  \/ RestAuth(q).v.type = "bearer" /\ ~Truthy(RestAuth(q).v.token)

\* The Authorization entry of the outgoing request for basic / bearer auth.
AuthorizationInjected(q) ==
  /\ Truthy(RestAuth(q)) /\ RestAuth(q).v.type = "basic" =>
       /\ SentHeaders(q).t = "object"
       /\ SentHeaders(q).v["Authorization"] =
            "Basic " \o Base64(RestAuth(q).v.username \o <<58>> \o RestAuth(q).v.password)
       /\ SentHeaders(q).v["Authorization"] = "Basic dTpw"
  /\ Truthy(RestAuth(q)) /\ RestAuth(q).v.type = "bearer"
       /\ Truthy(RestAuth(q).v.token) =>
       /\ SentHeaders(q).t = "object"
       /\ SentHeaders(q).v["Authorization"] = "Bearer " \o RestAuth(q).v.token.v

\* C9 as claimed: the Authorization header is 'Basic ' + base64(user:pass)
\* for basic auth and 'Bearer <token>' for bearer auth with a token,
\* replacing a configured Authorization entry; with no auth (or bearer
\* without token) the outgoing headers are exactly config.headers.
C9_AuthorizationHeader ==
  \A r \in Reqs :
    LET q == req[r]
    IN q.route = "data" /\ q.fetchCalls # <<>> =>
       /\ AuthorizationInjected(q)
       /\ NoAuthInjected(q) => SentHeaders(q) = q.connection.config.v.headers

\* C9 amended: as claimed for basic and bearer auth; with no auth (or bearer
\* without token) the outgoing headers are config.headers, with Content-Type
\* set to application/json when the request carries a body.
C9_AuthorizationHeaderAndBody ==
  \A r \in Reqs :
    LET q == req[r]
        config == q.connection.config.v
    IN q.route = "data" /\ q.fetchCalls # <<>> =>
       /\ AuthorizationInjected(q)
       /\ NoAuthInjected(q) /\ q.fetchCalls[1].options.body = Undef =>
            SentHeaders(q) = config.headers
       /\ NoAuthInjected(q) /\ q.fetchCalls[1].options.body # Undef =>
            /\ SentHeaders(q).t = "object"
            /\ SentHeaders(q).v["Content-Type"] = "application/json"
            /\ \A k \in DOMAIN SentHeaders(q).v \ {"Content-Type"} :
                 /\ config.headers.t = "object"
                 /\ k \in DOMAIN config.headers.v
                 /\ SentHeaders(q).v[k] = config.headers.v[k]
            /\ config.headers.t = "object" =>
                 DOMAIN config.headers.v \subseteq DOMAIN SentHeaders(q).v

\* The basic-auth connection 5, whose configured headers carry an
\* Authorization entry, was fetched with the injected credentials.
C9_Witness ==
  \E r \in Reqs :
    /\ req[r].route = "data" /\ req[r].fetchCalls # <<>>
    /\ req[r].connection.id = 5
    /\ req[r].connection.config.v.headers.v["Authorization"] = "Token old"
    /\ SentHeaders(req[r]).v["Authorization"] = "Basic dTpw"

\* C10: when the upstream call of a data fetch fails (rest response not ok,
\* or the sql query throws), the response is 400 and its error field is the
\* upstream error's message, unchanged.
C10_UpstreamErrorVerbatim ==
  \A r \in Reqs :
    LET q == req[r]
    IN q.route = "data" /\ q.upstreamError # Undef /\ Finished(q) =>
       /\ Status(q) = 400
       /\ q.res[1].error = q.upstreamError

(* ----------------------------- C11 ------------------------------------- *)
SqlOnlyRoutes == {"tables", "tableSchema", "executeQuery"}

\* The request passed the body validation and its registry lookup returned.
LookedUp(q) ==
  /\ q.route \in SqlOnlyRoutes
  /\ q.pc \notin {"idle", "getConnection"}
  /\ q.thrown # Str(StorageError)
  /\ Truthy(q.id)
  /\ q.route = "executeQuery" => Truthy(q.query) /\ q.query.t = "string"
  /\ q.route = "tableSchema" => Truthy(q.table) /\ q.table.t = "string"

\* C11: in list-tables, table-schema and execute-query a connection whose
\* type is not 'sql' is answered 400 "Connection must be of type 'sql'", with
\* no pool constructed, no connection string built and no query issued; a
\* connection id that resolves to nothing is answered 404 first, never the
\* type error.
C11_NonSqlRejected ==
  \A r \in Reqs :
    LET q == req[r]
        connection == getConnection(q.id)
    IN LookedUp(q) =>
         /\ ~Truthy(connection) =>
               /\ q.pc = "done" /\ Status(q) = 404
               /\ q.res[1].message = "Connection not found"
         /\ Truthy(connection) /\ connection.type # "sql" =>
               /\ q.pc = "done" /\ Status(q) = 400
               /\ q.res[1].message = "Connection must be of type 'sql'"
         /\ ~Truthy(connection) \/ connection.type # "sql" =>
               /\ ~pools[r].created /\ pools[r].queries = <<>>
               /\ q.tempPool = Undef /\ q.builderCalls = 0

\* A table-schema request naming a stored REST connection was refused.
C11_Witness ==
  \E r \in Reqs :
    /\ LookedUp(req[r]) /\ req[r].route = "tableSchema"
    /\ Truthy(getConnection(req[r].id))
    /\ getConnection(req[r].id).type = "rest"
    /\ req[r].pc = "done" /\ Status(req[r]) = 400
    /\ ~pools[r].created

(* ----------------------------- C12 ------------------------------------- *)
\* The upstream operations request r has issued: the statements sent to its
\* pool and its outbound fetch calls.
UpstreamOps(r) == Len(pools[r].queries) + Len(req[r].fetchCalls)

\* C12: a request never issues more than one upstream operation (one
\* tempPool.query or one fetch), so none is issued again after the first one
\* failed; and a request whose upstream operation failed ends with a 400 that
\* carries an error, never with rows.
C12_NoRetry ==
  \A r \in Reqs :
    /\ UpstreamOps(r) <= 1
    /\ req[r].upstreamError # Undef =>
          /\ UpstreamOps(r) = 1
          /\ Finished(req[r]) =>
                /\ req[r].pc = "done" /\ Status(req[r]) = 400
                /\ Truthy(req[r].res[1].error)
                /\ req[r].res[1].rows = <<>>

\* One request's query was rejected and one request's fetch failed; each was
\* answered 400 after its single upstream operation.
C12_Witness ==
  \E r1, r2 \in Reqs :
    /\ req[r1].upstreamError = Str(QueryError) /\ req[r1].pc = "done"
    /\ Len(pools[r1].queries) = 1 /\ Status(req[r1]) = 400
    /\ req[r2].pc = "done" /\ req[r2].route = "data"
    /\ Len(req[r2].fetchCalls) = 1
    /\ req[r2].upstreamError = Str(FetchError) /\ Status(req[r2]) = 400

(* ----------------------------- C13 ------------------------------------- *)
FailureStatuses == {400, 404, 500}

\* C13: the response a request writes either has status 200, or has one of
\* the failure statuses and then carries no rows; rows are only ever in a
\* 200, and no request has both a response with rows and a response with a
\* failure status written for it.  (What is written to the client is res; a
\* res.json attempted after the response was sent writes nothing.)
C13_NoPartialResults ==
  \A r \in Reqs :
    /\ Len(req[r].res) <= 1
    /\ \A i \in 1..Len(req[r].res) :
          /\ req[r].res[i].status \in FailureStatuses \cup {200}
          /\ req[r].res[i].status \in FailureStatuses =>
                req[r].res[i].rows = <<>>
          /\ req[r].res[i].rows # <<>> => req[r].res[i].status = 200

\* The query of a data request returned rows, tempPool.end() then threw, and
\* the request was answered 400 without the rows it held.
C13_Witness ==
  \E r \in Reqs :
    /\ req[r].route = "data" /\ req[r].pc = "done"
    /\ req[r].data = DbRows /\ DbRows # <<>>
    /\ req[r].thrown = Str(EndError)
    /\ Status(req[r]) = 400 /\ req[r].res[1].rows = <<>>

(* ----------------------------- C14 ------------------------------------- *)
\* Any step of the handler serving request r.
Handler(r) ==
  \/ DatasetData(r) \/ ExecuteQuery(r) \/ Tables(r) \/ TableSchema(r)
  \/ DatasetQuery(r)

InFlight(q) == q.pc \notin {"idle", "done", "crashed"}

\* Pool r is used by request r alone: constructed by it, queried by it once
\* with its own statement and before any end(), and closed by it once, after
\* its own query settled.
OwnPoolOnly(r) ==
  LET q == req[r]
  IN /\ q.tempPool # Undef <=> pools[r].created
     /\ q.tempPool # Undef =>
           /\ q.tempPool.id = r
           /\ pools[r].connectionString = q.connectionString
     /\ pools[r].queries # <<>> =>
           pools[r].created /\ pools[r].queries = <<q.sqlQuery>>
     /\ pools[r].queriesAfterEnd = 0
     /\ pools[r].endCalls <= 1
     /\ pools[r].endCalls = 1 => q.pc \in {"end", "done", "crashed"}
     /\ pools[r].ended => pools[r].endCalls = 1 /\ Finished(q)

\* A step that changes request r or pool r is a step of request r's handler
\* and leaves every other request and every other pool as they were.
OwnStepOnly ==
  \A r \in Reqs :
    req'[r] # req[r] \/ pools'[r] # pools[r] =>
      \A o \in Reqs \ {r} : req'[o] = req[o] /\ pools'[o] = pools[o]

\* C14: under every interleaving of concurrent requests, also when they use
\* the same stored SQL connection, each request constructs its own pool,
\* queries only that pool and closes only that pool, no pool is queried after
\* end() was called on it, a request in flight can always take its next step
\* whatever the other requests have done, and no step of one request changes
\* another request or its pool.
C14_PoolPerRequest ==
  /\ [](\A r \in Reqs :
          /\ OwnPoolOnly(r)
          /\ InFlight(req[r]) => ENABLED Handler(r))
  /\ [][OwnStepOnly]_vars

\* Two data requests on stored SQL connection 1 ran concurrently: one has
\* failed and closed its pool while the other, its pool still open, waits
\* for its query.
C14_Witness ==
  \E r1, r2 \in Reqs :
    /\ r1 # r2
    /\ req[r1].route = "data" /\ req[r2].route = "data"
    /\ Truthy(req[r1].connection) /\ req[r1].connection.id = 1
    /\ Truthy(req[r2].connection) /\ req[r2].connection.id = 1
    /\ req[r1].pc = "done" /\ Status(req[r1]) = 400 /\ pools[r1].ended
    /\ req[r2].pc = "query" /\ pools[r2].created /\ pools[r2].endCalls = 0
    /\ Len(pools[r2].queries) = 1

(* ----------------------------- C15 ------------------------------------- *)
\* C15: no step of any executor route writes the connection registry or the
\* dataset registry; both stay as they were stored.
C15_RegistriesNotWritten ==
  [][connections' = connections /\ datasets' = datasets]_vars

\* A data request with a customQuery has been answered with rows while
\* another request was refused, and both registries hold what was stored.
C15_Witness ==
  /\ connections = StoredConnections /\ datasets = StoredDatasets
  /\ \E r1, r2 \in Reqs :
       /\ req[r1].route = "data" /\ Truthy(req[r1].query)
       /\ req[r1].pc = "done" /\ Status(req[r1]) = 200
       /\ req[r1].res[1].rows # <<>>
       /\ req[r2].pc = "done" /\ Status(req[r2]) = 400

(* ----------------------------- C16 ------------------------------------- *)
\* The one statement an introspection route issues.
IntrospectionQuery(route) ==
  IF route = "tables" THEN TablesQuery ELSE SchemaQuery

\* C16: a list-tables or table-schema request that gets as far as a pool
\* constructs exactly one pool of its own, issues on it exactly one
\* statement, the route's fixed SELECT on information_schema, and has called
\* end() on it exactly once as soon as the query has settled, whether it
\* returned rows or threw; a request that never constructs a pool issues no
\* statement and calls no end().
C16_IntrospectionPool ==
  \A r \in Reqs :
    req[r].route \in {"tables", "tableSchema"} =>
      IF pools[r].created
      THEN /\ req[r].tempPool = [t |-> "pool", id |-> r]
           /\ pools[r].queries = <<IntrospectionQuery(req[r].route)>>
           /\ pools[r].queriesAfterEnd = 0
           /\ req[r].pc = "query" => pools[r].endCalls = 0
           /\ req[r].pc \in {"end", "done", "crashed"} => pools[r].endCalls = 1
      ELSE pools[r].queries = <<>> /\ pools[r].endCalls = 0

\* A list-tables request whose query threw has called end() once and was
\* answered 400.
C16_Witness ==
  \E r \in Reqs :
    /\ req[r].route = "tables" /\ req[r].pc = "done"
    /\ req[r].upstreamError = Str(QueryError)
    /\ pools[r].queries = <<TablesQuery>>
    /\ pools[r].endCalls = 1 /\ pools[r].ended
    /\ Status(req[r]) = 400

(* ----------------------------- C17 ------------------------------------- *)
\* Errors that are neither configuration, upstream nor not-found errors: a
\* throwing registry lookup, a throwing CSV parser, a res.json that throws
\* because the response was already sent.
UnclassifiedErrors ==
  {Str(StorageError), Str(ParseError), Str("ERR_HTTP_HEADERS_SENT")}

\* C17: no handler ends with an exception escaping it; every handler that
\* has finished has written a response; and a request whose last error was an
\* unclassified one was answered 500.
C17_BoundaryCatchesAll ==
  \A r \in Reqs :
    /\ req[r].pc # "crashed"
    /\ Finished(req[r]) => Responded(req[r])
    /\ Finished(req[r]) /\ req[r].thrown \in UnclassifiedErrors =>
          Status(req[r]) = 500

(* ----------------------------- C18 ------------------------------------- *)
\* The csv connection a data request resolved, or undefined.
CsvConnection(q) ==
  IF q.route = "data" /\ Truthy(q.connection) /\ q.connection.type = "csv"
  THEN q.connection ELSE Undef

\* The payload the claim names: csvData when it is non-empty, otherwise
\* fileContent when that is non-empty, otherwise none.
CsvPayload(config) ==
  IF ~Truthy(config) THEN Undef
  ELSE IF Truthy(config.v.csvData) THEN config.v.csvData
  ELSE IF Truthy(config.v.fileContent) THEN config.v.fileContent
  ELSE Undef

\* C18: a data request on a csv connection with no payload (config missing,
\* or csvData and fileContent both absent or empty) is answered 400 and the
\* parser is not invoked; with a payload the parser is invoked exactly once,
\* and what it parsed is csvData when csvData is present, fileContent only
\* otherwise.  No request invokes the parser more than once, and none on a
\* connection that is not csv.
C18_CsvPayload ==
  \A r \in Reqs :
    LET q == req[r]
        connection == CsvConnection(q)
    IN IF connection = Undef THEN q.parseCalls = 0
       ELSE LET payload == CsvPayload(connection.config)
            IN IF payload = Undef
               THEN /\ q.pc = "done" /\ Status(q) = 400
                    /\ q.res[1].message = "No CSV data found in connection"
                    /\ q.parseCalls = 0
               ELSE /\ q.pc = "done" /\ q.parseCalls = 1
                    /\ \/ /\ Status(q) = 200
                          /\ q.res[1].rows = <<[parsed |-> payload.v]>>
                       \/ Status(q) = 500 /\ q.thrown = Str(ParseError)

\* A request parsed the csvData of a csv connection that also has
\* fileContent, in one parser call.
C18_Witness ==
  \E r \in Reqs :
    /\ CsvConnection(req[r]) # Undef
    /\ Truthy(req[r].connection.config)
    /\ Truthy(req[r].connection.config.v.csvData)
    /\ Truthy(req[r].connection.config.v.fileContent)
    /\ req[r].parseCalls = 1 /\ Status(req[r]) = 200
    /\ req[r].res[1].rows
         = <<[parsed |-> req[r].connection.config.v.csvData.v]>>

SqlExecutorRoutes ==
  {"data", "executeQuery", "tables", "tableSchema", "datasetQuery"}

\* C20: a request to an SQL executor route has exactly one response written
\* once its handler has finished and never more than one before, and its
\* handler never calls res.json again after the response was sent, also when
\* tempPool.end() throws in the finally block after the rows went out.
C20_ExactlyOneResponse ==
  \A r \in Reqs :
    req[r].route \in SqlExecutorRoutes =>
      /\ Len(req[r].res) <= 1
      /\ Finished(req[r]) => Len(req[r].res) = 1
      /\ req[r].lateSends = 0

(* ----------------------------- C21 ------------------------------------- *)
\* The data request reached the sql branch with nothing naming a statement:
\* no customQuery string, no stored query, no config.table.
NothingToRun(q) ==
  /\ q.route = "data" /\ Truthy(q.connection) /\ q.connection.type = "sql"
  /\ Truthy(q.dataset)
  /\ ~HasCustomQuery(q) /\ ~Truthy(q.dataset.query) /\ ~HasTable(q.dataset)

\* C21: a data request on a sql connection whose dataset has neither a
\* stored query nor a config.table, and that carries no customQuery, is not
\* refused for that: once its pool exists the one statement sent to it is
\* 'SELECT * FROM users LIMIT 100', and when that query and end() succeed
\* the response is 200 with the rows the query returned; the only 400 it can
\* still get is the upstream failure.
C21_FallbackStatement ==
  \A r \in Reqs :
    NothingToRun(req[r]) /\ pools[r].created =>
      /\ pools[r].queries = <<"SELECT * FROM users LIMIT 100">>
      /\ Finished(req[r]) =>
            \/ /\ req[r].thrown = Undef /\ Status(req[r]) = 200
               /\ req[r].res[1].rows = DbRows
            \/ /\ req[r].thrown \in {Str(QueryError), Str(EndError)}
               /\ Status(req[r]) = 400
               /\ req[r].res[1].message = "SQL query execution failed"

\* Dataset 2 (no query, no config) was fetched without a customQuery and
\* answered with the rows of the default statement.
C21_Witness ==
  \E r \in Reqs :
    /\ NothingToRun(req[r]) /\ req[r].dataset.id = 2 /\ req[r].query = Undef
    /\ pools[r].queries = <<"SELECT * FROM users LIMIT 100">>
    /\ req[r].pc = "done" /\ Status(req[r]) = 200
    /\ req[r].res[1].rows = DbRows /\ DbRows # <<>>

(* ----------------------------- C22 ------------------------------------- *)
\* The data request's dataset lookup returned this stored dataset.
FoundDataset(q) ==
  IF q.route = "data" /\ q.pc \notin {"idle", "getDataset"}
     /\ ~(q.thrown = Str(StorageError) /\ q.dataset = Undef)
  THEN getDataset(q.id) ELSE Undef

\* C22: a data request whose resolved connection has a type other than csv,
\* rest and sql is answered 200 with an empty row array, having constructed
\* no pool, issued no fetch and called no parser; a data request whose
\* dataset has a null connectionId is answered 400, not 404, and ends there
\* without a connection lookup.
C22_OtherTypeAndNullConnection ==
  \A r \in Reqs :
    LET q == req[r]
        dataset == FoundDataset(q)
    IN /\ q.route = "data" /\ Truthy(q.connection)
            /\ q.connection.type \notin {"csv", "rest", "sql"} =>
              /\ q.pc = "done" /\ Status(q) = 200 /\ q.res[1].rows = <<>>
              /\ ~pools[r].created /\ q.tempPool = Undef
              /\ q.fetchCalls = <<>> /\ q.parseCalls = 0
       /\ Truthy(dataset) /\ dataset.connectionId = Null =>
              /\ q.pc = "done" /\ Status(q) = 400
              /\ q.res[1].message = "Dataset has no associated connection"
              /\ q.connection = Undef /\ q.thrown = Undef
              /\ ~pools[r].created /\ q.fetchCalls = <<>>

\* The fetch of dataset 17, whose connection 14 has the type mongo, was
\* answered 200 with no rows.
C22_Witness ==
  \E r \in Reqs :
    /\ req[r].route = "data" /\ req[r].id = Num(17)
    /\ Truthy(req[r].connection) /\ req[r].connection.type = "mongo"
    /\ req[r].pc = "done" /\ Status(req[r]) = 200
    /\ req[r].res[1].rows = <<>> /\ ~pools[r].created

(* ----------------------------- C23 ------------------------------------- *)
\* C23: when broadcastWebSocketMessage has just returned, it has not thrown
\* to its caller; send() was called only on clients that were registered and
\* whose readyState is OPEN; every client the loop saw CLOSED or CLOSING, or
\* whose send() threw, is out of the registry; every client it saw OPEN or
\* CONNECTING whose send() did not throw is still registered; and it added
\* no client.
C23_BroadcastPrunes ==
  lastBroadcast.returned =>
    /\ ~lastBroadcast.threwToCaller
    /\ lastBroadcast.sendCalls \subseteq
         {c \in lastBroadcast.before : sockets[c].readyState = "OPEN"}
    /\ lastBroadcast.threw \subseteq lastBroadcast.sendCalls
    /\ activeClients \subseteq lastBroadcast.before
    /\ \A c \in lastBroadcast.observed :
         IF sockets[c].readyState \in {"CLOSED", "CLOSING"}
            \/ c \in lastBroadcast.threw
         THEN c \notin activeClients
         ELSE c \in activeClients

\* A broadcast found one registered client CLOSING and removed it, and sent
\* the message to another, OPEN one, which stayed registered.
C23_Witness ==
  /\ lastBroadcast.returned
  /\ \E c1, c2 \in lastBroadcast.before :
       /\ sockets[c1].readyState = "CLOSING" /\ c1 \notin activeClients
       /\ c2 \in lastBroadcast.sendCalls \ lastBroadcast.threw
       /\ c2 \in activeClients

(* ----------------------------- C24 ------------------------------------- *)
\* C24: every client in activeClients was registered while not CLOSED and
\* has since neither fired 'close' nor been unregistered; and in every
\* reachable state unregisterWebSocketClient(client) removes the client,
\* calls close() on it exactly when its readyState is neither CLOSED nor
\* CLOSING (and on no other socket), and applied a second time changes
\* nothing.
C24_RegistryMembership ==
  /\ \A c \in activeClients : live[c] /\ sockets[c].readyState # "CLOSED"
  /\ \A client \in ClientInputs :
       LET once == Unregistered(Registry, client)
       IN /\ Unregistered(once, client) = once
          /\ ~Truthy(client) => once = Registry
          /\ Truthy(client) =>
               /\ client.id \notin once.active
               /\ once.active = activeClients \ {client.id}
               /\ \A c \in Clients :
                    once.sockets[c].closeCalls =
                      IF c = client.id
                         /\ sockets[c].readyState \notin {"CLOSED", "CLOSING"}
                      THEN sockets[c].closeCalls + 1
                      ELSE sockets[c].closeCalls

\* One client was registered and then unregistered while OPEN, which called
\* close() on it once; another client is still registered.
C24_Witness ==
  \E c1, c2 \in Clients :
    /\ c1 \notin activeClients /\ ~live[c1]
    /\ sockets[c1].closeListener /\ sockets[c1].closeCalls = 1
    /\ sockets[c1].readyState = "CLOSING"
    /\ c2 \in activeClients /\ live[c2]

(* ----------------------------- C25 ------------------------------------- *)
\* C25: no call of generateAIResponse rejects and a call that has returned
\* has returned a string; the statuses a call has broadcast are, in order,
\* 'processing', 'sending' and then exactly one of 'completed' and 'error',
\* the third one present once the call has returned; 'completed' is
\* broadcast only with an initialized client; and a call whose last
\* broadcast is 'error' returned the fallback string.
C25_StatusOrder ==
  \A k \in Calls :
    LET call == calls[k]
    IN /\ ~call.rejected
       /\ call.pc = "returned" => call.result.t = "string"
       /\ call.log \in {<<>>, <<"processing", "sending">>,
                         <<"processing", "sending", "completed">>,
                         <<"processing", "sending", "error">>}
       /\ call.pc = "returned" <=> Len(call.log) = 3
       /\ \A i \in 1..Len(call.log) : call.log[i] = "completed" => openai
       /\ call.pc = "returned" /\ call.log[Len(call.log)] = "error" =>
            call.result = Str(Fallback)

(* ----------------------------- C26 ------------------------------------- *)
\* C26: at every moment, whatever POSTs have run and however they were
\* interleaved, at most one space has isDefault = true.
C26_AtMostOneDefault ==
  Cardinality(DefaultIds(spaces)) <= 1

(* ----------------------------- C27 ------------------------------------- *)
\* C27: a POST that has responded 401, 400, 404 or 500 has cleared the
\* isDefault flag of no space, and has inserted no space that lacks the
\* owner row of its creator.
C27_FailureLeavesStateUnchanged ==
  \A p \in Posts :
    posts[p].pc = "done" /\ posts[p].status \in {401, 400, 404, 500} =>
      /\ posts[p].cleared = {}
      /\ posts[p].newSpace # Undef =>
            OwnerRow(posts[p].user.v.id, posts[p].newSpace.v) \in userSpaces

(* ----------------------------- C28 ------------------------------------- *)
\* C28: from any schema state, a run of migrateAlertsTables that returned
\* true has left every target column and both tables present, and a run
\* that follows a run that returned true executes no ALTER TABLE and no
\* CREATE statement.
C28_ConvergesInOneRun ==
  /\ migration.pc = "done" => schema = FullSchema
  /\ migration.prevOk => migration.ddl = 0

====
